---- MODULE Spec2Model ----
(***************************************************************************)
(* SnailShell: the read loop (run), the parser (parse and its helpers) and *)
(* the pipeline executor (execute and its helpers), as one state machine.  *)
(* A C string is a sequence of one-character strings; a pointer that may   *)
(* be NULL is NULL (the empty tuple) or Some(s) (the one-tuple holding s). *)
(***************************************************************************)
EXTENDS Integers, Sequences, FiniteSets, TLC

VARIABLES
    pc,         \* where the shell process is: in run, in execute, or gone
    nread,      \* lines getline has returned so far
    history,    \* the lines holding '=' among them, in the order read
    line,       \* run's currLine, newline stripped
    commands,   \* the pipeline parse returned: a sequence of Command records
    curr,       \* execute's curr: index into commands (Len+1 models NULL)
    fd,         \* execute's local int fd[2]; Uninit until pipe() writes it
    prevPipe,   \* execute's local prevPipe
    shellFds,   \* the shell process's descriptor table
    procs,      \* the children forked for the current pipeline, in fork order
    pipes,      \* the pipes created for the current pipeline, in pipe() order:
                \* the stage each was created for and the bytes it holds
    files,      \* the file system's regular files: name -> contents
    terminal,   \* bytes written to the terminal since the line was read
    env,        \* the process environment (the Variable Store)
    cwd,        \* the shell's working directory
    stderr,     \* diagnostics the shell printed since the line was read
    envBefore,  \* the environment as it was when the line was read
    filesBefore, \* the files as they were when the line was read
    tokenPtr,   \* parse: where in the line the current '|' token ends
    subtokenPtr, \* parse: where in the line the next subtoken is looked for
    argv,       \* main's arguments after the program name
    inputStream, \* what run reads: NULL before main has chosen
    exitStatus  \* NULL while the process runs, else Some(its status)

vars == <<pc, nread, history, line, commands, curr, fd, prevPipe, shellFds, procs,
          pipes, files, terminal, env, cwd, stderr, envBefore,
                   filesBefore, tokenPtr, subtokenPtr, argv, inputStream, exitStatus>>

(***************************************************************************)
(* Bounds of the model.                                                    *)
(***************************************************************************)
MaxLines == 1
MaxStages == 3
MaxLineLen == 4
NumFds == 7
PipeCap == 2

(***************************************************************************)
(* C strings and optional pointers.                                        *)
(***************************************************************************)
NULL == <<>>
Some(s) == <<s>>

Letters == {"a", "b", "c", "d", "e", "f", "g", "h", "i", "j", "k", "l", "m",
            "n", "o", "p", "q", "r", "s", "t", "u", "v", "w", "x", "y", "z",
            "A", "B", "C", "D", "E", "F", "G", "H", "I", "J", "K", "L", "M",
            "N", "O", "P", "Q", "R", "S", "T", "U", "V", "W", "X", "Y", "Z"}

isalpha(c) == c \in Letters

\* strchr(s, c): the index of the first c in s, 0 when there is none.
strchr(s, c) ==
    IF \E i \in 1..Len(s) : s[i] = c
    THEN CHOOSE i \in 1..Len(s) : s[i] = c /\ \A j \in 1..(i - 1) : s[j] # c
    ELSE 0

\* Every token a strtok_r loop over s with delimiters delims returns, in
\* order: the maximal non-empty runs of non-delimiter characters.
RECURSIVE strtok_r(_, _, _, _, _)
strtok_r(s, delims, i, tok, acc) ==
    IF i > Len(s)
    THEN IF tok = <<>> THEN acc ELSE Append(acc, tok)
    ELSE IF s[i] \in delims
         THEN strtok_r(s, delims, i + 1, <<>>,
                       IF tok = <<>> THEN acc ELSE Append(acc, tok))
         ELSE strtok_r(s, delims, i + 1, Append(tok, s[i]), acc)

Tokens(s, delims) == strtok_r(s, delims, 1, <<>>, <<>>)

(***************************************************************************)
(* The Variable Store: the process environment, a function from the names  *)
(* that are set to their values.                                           *)
(***************************************************************************)
\* getenv(name): Some(value), or NULL when name is not set.
getenv(e, name) == IF name \in DOMAIN e THEN Some(e[name]) ELSE NULL

\* setenv(name, value, 0): a name that is already set keeps its value.
setenvKeepsOld(e, name, value) ==
    IF name = <<>> \/ strchr(name, "=") # 0
    THEN [ret |-> -1, env |-> e]
    ELSE [ret |-> 0,
          env |-> [n \in DOMAIN e \cup {name} |->
                      IF n \in DOMAIN e THEN e[n] ELSE value]]

\* setenv(name, value, 1): fails (EINVAL) for an empty name or one holding
\* '='; otherwise inserts or overwrites.
setenv(e, name, value) ==
    IF name = <<>> \/ strchr(name, "=") # 0
    THEN [ret |-> -1, env |-> e]
    ELSE [ret |-> 0,
          env |-> [n \in DOMAIN e \cup {name} |->
                      IF n = name THEN value ELSE e[n]]]

\* handleVariableAssignment with isalnum in place of isalpha.
handleVariableAssignmentAlnum(currLine, equalSign, e) ==
    LET name == SubSeq(currLine, 1, equalSign - 1)
        value == SubSeq(currLine, equalSign + 1, Len(currLine))
        invalid == \E i \in 1..Len(name) :
                       /\ ~isalpha(name[i])
                       /\ name[i] \notin {"0", "1", "2", "3", "4", "5", "6", "7", "8", "9"}
                       /\ name[i] # "_"
        set == setenv(e, name, value)
    IN  IF invalid
        THEN [ret |-> -1, env |-> e, err |-> <<"ERROR_VAR_INVALID">>]
        ELSE IF set.ret = -1
             THEN [ret |-> -1, env |-> e, err |-> <<"perror setenv">>]
             ELSE [ret |-> 0, env |-> set.env, err |-> <<>>]

\* handleVariableAssignment storing the value after variable substitution.
handleVariableAssignmentSubstituted(currLine, equalSign, e) ==
    LET name == SubSeq(currLine, 1, equalSign - 1)
        text == SubSeq(currLine, equalSign + 1, Len(currLine))
        value == IF text # <<>> /\ text[1] = "$"
                 THEN IF Tail(text) \in DOMAIN e THEN e[Tail(text)] ELSE <<>>
                 ELSE text
        invalid == \E i \in 1..Len(name) : ~isalpha(name[i]) /\ name[i] # "_"
        set == setenv(e, name, value)
    IN  IF invalid
        THEN [ret |-> -1, env |-> e, err |-> <<"ERROR_VAR_INVALID">>]
        ELSE IF set.ret = -1
             THEN [ret |-> -1, env |-> e, err |-> <<"perror setenv">>]
             ELSE [ret |-> 0, env |-> set.env, err |-> <<>>]

\* Parse.c handleVariableAssignment: name is the text before equalSign, value
\* the text after it; a character that is neither a letter nor '_' rejects
\* the name before setenv is reached.
handleVariableAssignment(currLine, equalSign, e) ==
    LET name == SubSeq(currLine, 1, equalSign - 1)
        value == SubSeq(currLine, equalSign + 1, Len(currLine))
        invalid == \E i \in 1..Len(name) : ~isalpha(name[i]) /\ name[i] # "_"
        set == setenv(e, name, value)
    IN  IF invalid
        THEN [ret |-> -1, env |-> e, err |-> <<"ERROR_VAR_INVALID">>]
        ELSE IF set.ret = -1
             THEN [ret |-> -1, env |-> e, err |-> <<"perror setenv">>]
             ELSE [ret |-> 0, env |-> set.env, err |-> <<>>]

(***************************************************************************)
(* The parser.                                                             *)
(***************************************************************************)
\* A Command after malloc and memset(0).
NewCommand == [args |-> <<>>, argCount |-> 0, input |-> NULL, output |-> NULL,
               append |-> 0]

\* replace applied again to the value it found.
replaceAgain(arg, e) ==
    LET once == IF arg = <<>> \/ arg[1] # "$"
                THEN arg
                ELSE LET value == getenv(e, Tail(arg))
                     IN  IF value = NULL THEN <<>> ELSE value[1]
    IN  IF once = <<>> \/ once[1] # "$"
        THEN once
        ELSE LET value == getenv(e, Tail(once))
             IN  IF value = NULL THEN <<>> ELSE value[1]

\* Parse.c replace: an argument starting with '$' becomes the value of the
\* variable named by the rest of it ("" when unset); any other is copied.
replace(arg, e) ==
    IF arg = <<>> \/ arg[1] # "$"
    THEN arg
    ELSE LET value == getenv(e, Tail(arg))
         IN  IF value = NULL THEN <<>> ELSE value[1]

\* substitute replacing the redirect paths as well as the arguments.
substituteWithPaths(command, e) ==
    [command EXCEPT !.args = [i \in 1..command.argCount |->
                                 replace(command.args[i], e)],
                    !.input = IF @ = NULL THEN NULL ELSE Some(replace(@[1], e)),
                    !.output = IF @ = NULL THEN NULL ELSE Some(replace(@[1], e))]

\* Parse.c substitute: replace applied to every argument in place.
substitute(command, e) ==
    [command EXCEPT !.args = [i \in 1..command.argCount |->
                                 replace(command.args[i], e)]]

\* The subtoken loop with '>' leaving the append flag as it is.
RECURSIVE tokenizeKeepsAppend(_, _, _)
tokenizeKeepsAppend(words, i, command) ==
    IF i > Len(words)
    THEN command
    ELSE IF words[i] \in {<<">">>, <<">", ">">>}
    THEN IF i + 1 > Len(words)
         THEN command
         ELSE tokenizeKeepsAppend(words, i + 2,
                  [command EXCEPT !.output = Some(words[i + 1]),
                                  !.append = IF words[i] = <<">", ">">>
                                             THEN 1 ELSE @])
    ELSE IF words[i] = <<"<">>
    THEN IF i + 1 > Len(words)
         THEN command
         ELSE tokenizeKeepsAppend(words, i + 2,
                  [command EXCEPT !.input = Some(words[i + 1])])
    ELSE tokenizeKeepsAppend(words, i + 1,
             [command EXCEPT !.args = Append(@, words[i]),
                             !.argCount = @ + 1])

\* The subtoken loop without the '>>' branch: '>>' is taken as an argument.
RECURSIVE tokenizeNoAppendOp(_, _, _)
tokenizeNoAppendOp(words, i, command) ==
    IF i > Len(words)
    THEN command
    ELSE IF words[i] = <<">">>
    THEN IF i + 1 > Len(words)
         THEN command
         ELSE tokenizeNoAppendOp(words, i + 2,
                  [command EXCEPT !.output = Some(words[i + 1]), !.append = 0])
    ELSE IF words[i] = <<"<">>
    THEN IF i + 1 > Len(words)
         THEN command
         ELSE tokenizeNoAppendOp(words, i + 2,
                  [command EXCEPT !.input = Some(words[i + 1])])
    ELSE tokenizeNoAppendOp(words, i + 1,
             [command EXCEPT !.args = Append(@, words[i]),
                             !.argCount = @ + 1])

\* Parse.c parse, the subtoken loop over one segment's words from word i on.
\* After an operator the next word is taken as its path; when there is none
\* the loop ends with nothing recorded for the operator.
RECURSIVE tokenize(_, _, _)
tokenize(words, i, command) ==
    IF i > Len(words)
    THEN command
    ELSE IF words[i] = <<">">>
    THEN IF i + 1 > Len(words)
         THEN command
         ELSE tokenize(words, i + 2,
                  [command EXCEPT !.output = Some(words[i + 1]), !.append = 0])
    ELSE IF words[i] = <<">", ">">>
    THEN IF i + 1 > Len(words)
         THEN command
         ELSE tokenize(words, i + 2,
                  [command EXCEPT !.output = Some(words[i + 1]), !.append = 1])
    ELSE IF words[i] = <<"<">>
    THEN IF i + 1 > Len(words)
         THEN command
         ELSE tokenize(words, i + 2,
                  [command EXCEPT !.input = Some(words[i + 1])])
    ELSE tokenize(words, i + 1,
             [command EXCEPT !.args = Append(@, words[i]),
                             !.argCount = @ + 1])

\* Parse.c parse, the subtoken loop from word i on: how many strings it
\* duplicates and stores (a path after each operator, and each argument).
RECURSIVE strdups(_, _)
strdups(words, i) ==
    IF i > Len(words) THEN 0
    ELSE IF words[i] \in {<<">">>, <<">", ">">>, <<"<">>}
    THEN IF i + 1 > Len(words) THEN 0 ELSE 1 + strdups(words, i + 2)
    ELSE 1 + strdups(words, i + 1)

\* The blocks parse leaves allocated for one segment: the Command and the
\* strings of the subtoken loop (substitute frees each argument it replaces
\* and allocates its replacement).
LiveAfterParse(words) == 1 + strdups(words, 1)

\* One Command per '|'-separated token of the line: tokenized on blanks and
\* tabs, then substituted.
parseSegment(token, e) ==
    substitute(tokenize(Tokens(token, {" ", "\t"}), 1, NewCommand), e)

\* parse returning NULL only when the assignment succeeded, and going on to
\* split the line when it failed.
parseOnFailedAssignment(currLine, e) ==
    LET equalSign == strchr(currLine, "=")
        assigned == handleVariableAssignment(currLine, equalSign, e)
        segments == Tokens(currLine, {"|"})
    IN  IF Len(currLine) = 0
        THEN [commands |-> NULL, env |-> e, err |-> <<>>]
        ELSE IF equalSign # 0 /\ assigned.ret = 0
        THEN [commands |-> NULL, env |-> assigned.env, err |-> <<>>]
        ELSE [commands |-> [k \in 1..Len(segments) |->
                               parseSegment(segments[k], e)],
              env |-> e,
              err |-> IF equalSign # 0
                      THEN assigned.err \o <<"Failed to handle variable assignment">>
                      ELSE <<>>]

\* Parse.c parse: the pipeline (NULL when there is none), the environment
\* after the call and what was printed to stderr.
parse(currLine, e) ==
    LET equalSign == strchr(currLine, "=")
        assigned == handleVariableAssignment(currLine, equalSign, e)
        segments == Tokens(currLine, {"|"})
    IN  IF Len(currLine) = 0
        THEN [commands |-> NULL, env |-> e, err |-> <<>>]
        ELSE IF equalSign # 0
        THEN [commands |-> NULL, env |-> assigned.env,
              err |-> IF assigned.ret = -1
                      THEN assigned.err \o <<"Failed to handle variable assignment">>
                      ELSE <<>>]
        ELSE [commands |-> [k \in 1..Len(segments) |->
                               parseSegment(segments[k], e)],
              env |-> e, err |-> <<>>]

(***************************************************************************)
(* The operating system: descriptor tables, pipes, files, directories.     *)
(***************************************************************************)
STDIN_FILENO == 0
STDOUT_FILENO == 1

FdNums == 0..(NumFds - 1)
Closed == [kind |-> "closed"]
Tty == [kind |-> "tty"]
PipeEnd(p, e) == [kind |-> "pipe", pipe |-> p, end |-> e]
FileDesc(name, mode) == [kind |-> "file", name |-> name, mode |-> mode]

\* The table a process is started with: terminal on 0, 1 and 2.
StdFds == [n \in FdNums |-> IF n \in 0..2 THEN Tty ELSE Closed]
NoFds == [n \in FdNums |-> Closed]

IsOpen(t, n) == n \in FdNums /\ t[n] # Closed
FreeFds(t) == {n \in FdNums : t[n] = Closed}
LowestFree(t) == CHOOSE n \in FreeFds(t) : \A m \in FreeFds(t) : n <= m

\* close(n): a descriptor that is not open is left alone (EBADF).
close(t, n) == IF IsOpen(t, n) THEN [t EXCEPT ![n] = Closed] ELSE t

\* Run.c safeClose: close unless the descriptor is -1; an error only prints.
safeClose(t, n) == IF n # -1 THEN close(t, n) ELSE t

\* dup2(old, new) on a table where old is open.
dup2(t, old, new) == [t EXCEPT ![new] = t[old]]

\* The value of an int that was never written: any of these.
Uninit == -2
UninitValues == {-1, 0, 1}
Values(v) == IF v = Uninit THEN UninitValues ELSE {v}

\* Directories that exist; chdir succeeds on exactly these.
Dirs == {<<"/", "d">>, <<"/", "h">>}
HOME == <<"H", "O", "M", "E">>

\* Regular files that cannot be created or opened for writing.
Unwritable == {<<"/", "d">>, <<"/", "h">>}

(***************************************************************************)
(* The input.  A script is any sequence of at most MaxLines lines, each a  *)
(* pipeline of at most MaxStages of the segments below, a short pipeline   *)
(* with one of the rarer segments in it, or one of the other lines.        *)
(***************************************************************************)
EchoHi == <<"e", "c", "h", "o", " ", "h", "i">>
Cat == <<"c", "a", "t">>
CdDir == <<"c", "d", " ", "/", "d">>
CatFromF == <<"c", "a", "t", " ", "<", " ", "f">>
EchoToF == <<"e", "c", "h", "o", " ", "h", "i", " ", ">", " ", "f">>
Nope == <<"n", "o", "p", "e">>
CatFromN == <<"c", "a", "t", " ", "<", " ", "n">>
OnlyRedirect == <<">", " ", "f">>

Blank == <<" ">>

Segments == {EchoHi, Cat, CdDir, CatFromF, EchoToF, Nope}
RareSegments == {CatFromN, OnlyRedirect, Blank}

RECURSIVE Join(_)
Join(segs) ==
    IF Len(segs) = 1 THEN segs[1]
    ELSE segs[1] \o <<" ", "|", " ">> \o Join(Tail(segs))

OtherLines == {<<>>, <<" ">>, <<" ", "\t">>, <<"|">>,
               <<"V", "=", "h", "i">>, <<"1", "=", "x">>,
               <<"c", "a", "t", " ", "|", " ", "a", "=", "b">>}

RareLines ==
    {Join(<<r>>) : r \in {CatFromN, OnlyRedirect}}
    \cup {Join(<<s, r>>) : s \in {EchoHi, Cat, CdDir}, r \in RareSegments}
    \cup {Join(<<r, s>>) : s \in {EchoHi, Cat, CdDir}, r \in RareSegments}
    \cup {Join(<<EchoHi, r, Cat>>) : r \in RareSegments}

ScriptLines ==
    {Join(segs) : segs \in UNION {[1..n -> Segments] : n \in 1..MaxStages}}
    \cup RareLines \cup OtherLines

\* Every line of at most MaxLineLen characters over this alphabet.
Alphabet == {"a", "_", "1", "=", " ", "\t", "|", "$", ">", "<"}
AllLines == UNION {[1..n -> Alphabet] : n \in 0..MaxLineLen}

(***************************************************************************)
(* The programs execvp can start, by name: echo writes its arguments and a *)
(* newline, cat copies its standard input to its standard output.  Any     *)
(* other name is not found.                                                *)
(***************************************************************************)
EchoName == <<"e", "c", "h", "o">>
CatName == <<"c", "a", "t">>
CdName == <<"c", "d">>
Programs == {EchoName, CatName}

RECURSIVE EchoOutput(_, _)
EchoOutput(args, i) ==
    IF i > Len(args) THEN <<"\n">>
    ELSE args[i] \o (IF i < Len(args) THEN <<" ">> ELSE <<>>)
         \o EchoOutput(args, i + 1)

(***************************************************************************)
(* main: the command line.  An argument is a C string; the input stream is *)
(* standard input or the script file.                                      *)
(***************************************************************************)
EXIT_FAILURE == 1
Stdin == "stdin"
Script == "script"

DashH == <<"-", "h">>
ARG_HELP == <<"-", "-", "h", "e", "l", "p">>
DashS == <<"-", "s">>
ARG_SCRIPT == <<"-", "-", "s", "c", "r", "i", "p", "t", "=">>

\* strncmp(arg, prefix, strlen(prefix)) == 0
strncmp0(arg, prefix) ==
    Len(arg) >= Len(prefix) /\ SubSeq(arg, 1, Len(prefix)) = prefix

\* main's loop skipping an argument it does not know.
RECURSIVE mainLoopSkipsUnknown(_, _, _)
mainLoopSkipsUnknown(args, i, scriptPath) ==
    IF i > Len(args)
    THEN [ret |-> NULL, scriptPath |-> scriptPath, err |-> <<>>, out |-> <<>>]
    ELSE IF args[i] = DashH \/ args[i] = ARG_HELP
    THEN [ret |-> Some(0), scriptPath |-> scriptPath, err |-> <<>>,
          out |-> <<"printHelp">>]
    ELSE IF args[i] = DashS
    THEN IF i + 1 > Len(args)
         THEN [ret |-> Some(-1), scriptPath |-> scriptPath,
               err |-> <<"ERROR_ARG_MISSING">>, out |-> <<>>]
         ELSE mainLoopSkipsUnknown(args, i + 2, Some(args[i + 1]))
    ELSE IF strncmp0(args[i], ARG_SCRIPT)
    THEN mainLoopSkipsUnknown(args, i + 1,
                  Some(SubSeq(args[i], Len(ARG_SCRIPT) + 1, Len(args[i]))))
    ELSE mainLoopSkipsUnknown(args, i + 1, scriptPath)

\* SnailShell.c main, the loop over argv from argument i on, scriptPath
\* being what was found so far: the status main returns from inside the
\* loop (NULL when the loop ends), the script path (NULL for none), and
\* what was printed to standard error and to standard output.
RECURSIVE mainLoop(_, _, _)
mainLoop(args, i, scriptPath) ==
    IF i > Len(args)
    THEN [ret |-> NULL, scriptPath |-> scriptPath, err |-> <<>>, out |-> <<>>]
    ELSE IF args[i] = DashH \/ args[i] = ARG_HELP
    THEN [ret |-> Some(0), scriptPath |-> scriptPath, err |-> <<>>,
          out |-> <<"printHelp">>]
    ELSE IF args[i] = DashS
    THEN IF i + 1 > Len(args)
         THEN [ret |-> Some(-1), scriptPath |-> scriptPath,
               err |-> <<"ERROR_ARG_MISSING">>, out |-> <<>>]
         ELSE mainLoop(args, i + 2, Some(args[i + 1]))
    ELSE IF strncmp0(args[i], ARG_SCRIPT)
    THEN mainLoop(args, i + 1,
                  Some(SubSeq(args[i], Len(ARG_SCRIPT) + 1, Len(args[i]))))
    ELSE [ret |-> Some(-1), scriptPath |-> scriptPath,
          err |-> <<"ERROR_ARG_UNKNOWN">>, out |-> <<>>]

\* Run.c printPrompt: the working directory and " > ".
printPrompt(dir) == dir \o <<" ", ">", " ">>

\* The command line of a shell started on the script f.
ScriptArgv == <<DashS, <<"f">> >>

(***************************************************************************)
(* The initial state: run is about to call getline for the first time.     *)
(***************************************************************************)
InitFiles == (<<"f">> :> <<"x", "\n">>)
InitEnv == (HOME :> <<"/", "h">>)
InitCwd == <<"/">>

Init ==
    /\ pc = "getline"
    /\ nread = 0
    /\ history = <<>>
    /\ line = <<>>
    /\ commands = NULL
    /\ curr = 1
    /\ fd = <<Uninit, Uninit>>
    /\ prevPipe = -1
    /\ shellFds = StdFds
    /\ procs = <<>>
    /\ pipes = <<>>
    /\ files = InitFiles
    /\ terminal = <<>>
    /\ env = InitEnv
    /\ cwd = InitCwd
    /\ stderr = <<>>
    /\ envBefore = InitEnv
    /\ filesBefore = InitFiles
    /\ tokenPtr = 0
    /\ subtokenPtr = 0
    /\ argv = ScriptArgv
    /\ inputStream = Script
    /\ exitStatus = NULL

(***************************************************************************)
(* run: the read loop.                                                     *)
(***************************************************************************)
\* What is still held from the pipeline of the previous line.
Unreaped == SelectSeq(procs, LAMBDA p : ~p.reaped)
ShellHoldsPipe == \E n \in FdNums : shellFds[n].kind = "pipe"

\* Run.c run: getline returns the next line of the input, which is any line
\* of the set Lines, and the newline is stripped.
readLine(Lines, max) ==
    /\ pc = "getline"
    /\ nread < max
    /\ \E l \in Lines :
           /\ line' = l
           /\ history' = IF strchr(l, "=") # 0 THEN Append(history, l)
                          ELSE history
    /\ nread' = nread + 1
    /\ pc' = "parse"
    /\ terminal' = IF inputStream = Stdin THEN printPrompt(cwd) ELSE <<>>
    /\ stderr' = <<>>
    /\ envBefore' = env
    /\ filesBefore' = files
    /\ procs' = Unreaped
    /\ pipes' = IF ShellHoldsPipe \/ Unreaped # <<>> THEN pipes ELSE <<>>
    /\ UNCHANGED <<commands, curr, fd, prevPipe, shellFds, files, env, cwd,
                   tokenPtr, subtokenPtr, argv, inputStream, exitStatus>>

getline(Lines) == readLine(Lines, MaxLines)

\* Run.c run: getline returns -1 at end of input, after the prompt when
\* reading standard input; run returns 0 and main returns that.
getlineEOF ==
    /\ pc = "getline"
    /\ pc' = "returned"
    /\ exitStatus' = Some(0)
    /\ terminal' = IF inputStream = Stdin THEN terminal \o printPrompt(cwd)
                   ELSE terminal
    /\ UNCHANGED <<nread, history, line, commands, curr, fd, prevPipe, shellFds, procs,
                   pipes, files, env, cwd, stderr, envBefore,
                   filesBefore, tokenPtr, subtokenPtr, argv, inputStream>>

\* Run.c run: parse(currLine), then execute(commands) when parse returned a
\* pipeline; execute starts with curr at the head, prevPipe -1 and fd not
\* written.
parseLine ==
    /\ pc = "parse"
    /\ LET r == parse(line, env)
       IN  /\ commands' = r.commands
           /\ env' = r.env
           /\ stderr' = stderr \o r.err
           /\ pc' = IF r.commands # NULL THEN "stage" ELSE "getline"
    /\ curr' = 1
    /\ fd' = <<Uninit, Uninit>>
    /\ prevPipe' = -1
    /\ UNCHANGED <<nread, history, line, shellFds, procs, pipes, files, terminal, cwd,
                   envBefore,
                   filesBefore, tokenPtr, subtokenPtr, argv, inputStream, exitStatus>>

(***************************************************************************)
(* execute, in the shell process.                                          *)
(***************************************************************************)
\* handleCD taking the first argument after cd as the target.
handleCDFirstArg(command, e, dir) ==
    LET targetDir == IF command.argCount > 1
                     THEN Some(command.args[2])
                     ELSE getenv(e, HOME)
    IN  IF targetDir = NULL \/ targetDir[1] \notin Dirs
        THEN [ret |-> -1, cwd |-> dir]
        ELSE [ret |-> 0, cwd |-> targetDir[1]]

\* handleCD doing nothing, and reporting success, when there is no target.
handleCDFallsBack(command, e, dir) ==
    LET targetDir == IF command.argCount > 1
                     THEN Some(command.args[command.argCount])
                     ELSE getenv(e, HOME)
    IN  IF targetDir = NULL
        THEN [ret |-> 0, cwd |-> dir]
        ELSE IF targetDir[1] \notin Dirs
        THEN [ret |-> -1, cwd |-> dir]
        ELSE [ret |-> 0, cwd |-> targetDir[1]]

\* Run.c handleCD: the last argument when there is more than one, else HOME;
\* -1 when there is no target or chdir fails.
handleCD(command, e, dir) ==
    LET targetDir == IF command.argCount > 1
                     THEN Some(command.args[command.argCount])
                     ELSE getenv(e, HOME)
    IN  IF targetDir = NULL \/ targetDir[1] \notin Dirs
        THEN [ret |-> -1, cwd |-> dir]
        ELSE [ret |-> 0, cwd |-> targetDir[1]]

\* handlePiping closing neither the previous read end nor the new write end.
handlePipingClosesNothing(hasNext, t, f, prev, newPipe) ==
    LET r == LowestFree(t)
        w == LowestFree([t EXCEPT ![r] = PipeEnd(newPipe, "r")])
        piped == [t EXCEPT ![r] = PipeEnd(newPipe, "r"),
                           ![w] = PipeEnd(newPipe, "w")]
    IN  IF hasNext
        THEN [fds |-> piped, fd |-> <<r, w>>, prevPipe |-> r]
        ELSE [fds |-> t, fd |-> f, prevPipe |-> -1]

\* handlePiping without safeClose(fd[1]): the shell keeps the write end.
handlePipingKeepsWriteEnd(hasNext, t, f, prev, newPipe) ==
    LET r == LowestFree(t)
        w == LowestFree([t EXCEPT ![r] = PipeEnd(newPipe, "r")])
        piped == [t EXCEPT ![r] = PipeEnd(newPipe, "r"),
                           ![w] = PipeEnd(newPipe, "w")]
    IN  IF hasNext
        THEN [fds |-> safeClose(piped, prev), fd |-> <<r, w>>, prevPipe |-> r]
        ELSE [fds |-> safeClose(t, prev), fd |-> f, prevPipe |-> -1]

\* Run.c handlePiping once pipe() has succeeded or was not called: with a
\* next stage, fd is the new pipe, the previous read end and the new write
\* end are closed and prevPipe becomes the new read end.
handlePiping(hasNext, t, f, prev, newPipe) ==
    LET r == LowestFree(t)
        w == LowestFree([t EXCEPT ![r] = PipeEnd(newPipe, "r")])
        piped == [t EXCEPT ![r] = PipeEnd(newPipe, "r"),
                           ![w] = PipeEnd(newPipe, "w")]
    IN  IF hasNext
        THEN [fds |-> safeClose(safeClose(piped, prev), w),
              fd |-> <<r, w>>, prevPipe |-> r]
        ELSE [fds |-> safeClose(t, prev), fd |-> f, prevPipe |-> -1]

\* The closing safeClose(prevPipe) left out.
closeAfterLoopSkipped(t, prev) == t

\* execute's closing safeClose(prevPipe), after the stage loop.
closeAfterLoop(t, prev) == safeClose(t, prev)

HasNext(k) == k < Len(commands)
IsCd(command) == command.argCount > 0 /\ command.args[1] = CdName
\* *curr->args is NULL: strcmp(NULL, "cd") is undefined.
NullName(command) == command.argCount = 0

\* A child that starts in the directory and with the environment the shell
\* itself was started with.
ChildAsAtStart(k) ==
    [stage |-> k, cmd |-> commands[k], last |-> ~HasNext(k), pc |-> "input",
     fds |-> shellFds, fd |-> fd, prevPipe |-> prevPipe, status |-> -1,
     reaped |-> FALSE, buf |-> <<>>, eof |-> FALSE,
     stdinAtExec |-> Closed, stdoutAtExec |-> Closed,
     cwd |-> InitCwd, env |-> InitEnv]

\* The child fork() returns 0 in: a copy of the shell's memory and table,
\* in the shell's working directory and with its environment.
Child(k) ==
    [stage |-> k, cmd |-> commands[k], last |-> ~HasNext(k), pc |-> "input",
     fds |-> shellFds, fd |-> fd, prevPipe |-> prevPipe, status |-> -1,
     reaped |-> FALSE, buf |-> <<>>, eof |-> FALSE,
     stdinAtExec |-> Closed, stdoutAtExec |-> Closed,
     cwd |-> cwd, env |-> env]

\* The shell process ends: exit(EXIT_FAILURE), or a signal.
ShellEnds(how) ==
    /\ pc' = how
    /\ shellFds' = NoFds
    /\ exitStatus' = IF how = "exited" THEN Some(EXIT_FAILURE) ELSE exitStatus

\* A cd stage that also records the new directory in the variable PWD.
executeCdSetsPwd ==
    /\ pc = "stage"
    /\ curr <= Len(commands)
    /\ IsCd(commands[curr]) \/ NullName(commands[curr])
    /\ LET r == handleCD(commands[curr], env, cwd)
       IN  /\ cwd' = r.cwd
           /\ env' = [n \in DOMAIN env \cup {<<"P", "W", "D">>} |->
                         IF n = <<"P", "W", "D">> THEN r.cwd ELSE env[n]]
           /\ stderr' = IF r.ret = -1
                        THEN stderr \o <<"Failed to change directory">>
                        ELSE stderr
    /\ curr' = curr + 1
    /\ UNCHANGED <<pc, nread, history, line, commands, fd, prevPipe, shellFds, procs,
                   pipes, files, terminal, envBefore,
                   filesBefore, tokenPtr, subtokenPtr, argv, inputStream, exitStatus>>

\* A cd stage whose failure ends the shell.
executeCdStopsOnFailure ==
    /\ pc = "stage"
    /\ curr <= Len(commands)
    /\ IsCd(commands[curr]) \/ NullName(commands[curr])
    /\ LET r == handleCD(commands[curr], env, cwd)
       IN  /\ cwd' = r.cwd
           /\ stderr' = IF r.ret = -1
                        THEN stderr \o <<"Failed to change directory">>
                        ELSE stderr
           /\ pc' = IF r.ret = -1 THEN "exited" ELSE pc
           /\ exitStatus' = IF r.ret = -1 THEN Some(EXIT_FAILURE) ELSE exitStatus
           /\ curr' = IF r.ret = -1 THEN curr ELSE curr + 1
    /\ UNCHANGED <<nread, history, line, commands, fd, prevPipe, shellFds, procs,
                   pipes, files, terminal, env, envBefore,
                   filesBefore, tokenPtr, subtokenPtr, argv, inputStream>>

\* A cd stage that closes the read end left by the stage before it.
executeCdClosesPipe ==
    /\ pc = "stage"
    /\ curr <= Len(commands)
    /\ IsCd(commands[curr]) \/ NullName(commands[curr])
    /\ LET r == handleCD(commands[curr], env, cwd)
       IN  /\ cwd' = r.cwd
           /\ stderr' = IF r.ret = -1
                        THEN stderr \o <<"Failed to change directory">>
                        ELSE stderr
    /\ curr' = curr + 1
    /\ shellFds' = safeClose(shellFds, prevPipe)
    /\ prevPipe' = -1
    /\ UNCHANGED <<pc, nread, history, line, commands, fd, procs,
                   pipes, files, terminal, env, envBefore,
                   filesBefore, tokenPtr, subtokenPtr, argv, inputStream, exitStatus>>

\* The cd branch of the stage loop.  With no arguments the comparison is
\* undefined; comparing equal is one outcome.
executeCd ==
    /\ pc = "stage"
    /\ curr <= Len(commands)
    /\ IsCd(commands[curr]) \/ NullName(commands[curr])
    /\ LET r == handleCD(commands[curr], env, cwd)
       IN  /\ cwd' = r.cwd
           /\ stderr' = IF r.ret = -1
                        THEN stderr \o <<"Failed to change directory">>
                        ELSE stderr
    /\ curr' = curr + 1
    /\ UNCHANGED <<pc, nread, history, line, commands, fd, prevPipe, shellFds, procs,
                   pipes, files, terminal, env, envBefore,
                   filesBefore, tokenPtr, subtokenPtr, argv, inputStream, exitStatus>>

\* With no arguments strcmp dereferences NULL: the shell is killed.
executeCrash ==
    /\ pc = "stage"
    /\ curr <= Len(commands)
    /\ NullName(commands[curr])
    /\ ShellEnds("crashed")
    /\ UNCHANGED <<nread, history, line, commands, curr, fd, prevPipe, procs, pipes,
                   files, terminal, env, cwd, stderr, envBefore,
                   filesBefore, tokenPtr, subtokenPtr, argv, inputStream>>

\* fork() succeeds: the shell goes on to handlePiping.
executeFork ==
    /\ pc = "stage"
    /\ curr <= Len(commands)
    /\ ~IsCd(commands[curr])
    /\ procs' = Append(procs, Child(curr))
    /\ pc' = "forked"
    /\ UNCHANGED <<nread, history, line, commands, curr, fd, prevPipe, shellFds, pipes,
                   files, terminal, env, cwd, stderr, envBefore,
                   filesBefore, tokenPtr, subtokenPtr, argv, inputStream, exitStatus>>

\* fork() returns -1: exit(EXIT_FAILURE).
executeForkFails ==
    /\ pc = "stage"
    /\ curr <= Len(commands)
    /\ ~IsCd(commands[curr])
    /\ ShellEnds("exited")
    /\ UNCHANGED <<nread, history, line, commands, curr, fd, prevPipe, procs, pipes,
                   files, terminal, env, cwd, stderr, envBefore,
                   filesBefore, tokenPtr, subtokenPtr, argv, inputStream>>

\* handlePiping in the parent, pipe() succeeding when it is called.
executePiping ==
    /\ pc = "forked"
    /\ HasNext(curr) => Cardinality(FreeFds(shellFds)) >= 2
    /\ LET r == handlePiping(HasNext(curr), shellFds, fd, prevPipe,
                             Len(pipes) + 1)
       IN  /\ shellFds' = r.fds
           /\ fd' = r.fd
           /\ prevPipe' = r.prevPipe
    /\ pipes' = IF HasNext(curr)
                 THEN Append(pipes, [stage |-> curr, buf |-> <<>>])
                 ELSE pipes
    /\ pc' = "wait"
    /\ UNCHANGED <<nread, history, line, commands, curr, procs, files, terminal, env,
                   cwd, stderr, envBefore,
                   filesBefore, tokenPtr, subtokenPtr, argv, inputStream, exitStatus>>

\* handlePiping: pipe() returns -1: exit(EXIT_FAILURE).
executePipeFails ==
    /\ pc = "forked"
    /\ HasNext(curr)
    /\ ShellEnds("exited")
    /\ UNCHANGED <<nread, history, line, commands, curr, fd, prevPipe, procs, pipes,
                   files, terminal, env, cwd, stderr, envBefore,
                   filesBefore, tokenPtr, subtokenPtr, argv, inputStream>>

\* waitpid returning at once, as with WNOHANG.
waitReturnsAtOnce(p) == TRUE

\* Whether waitpid returns for child p: only once it has ended.
waitReturns(p) == p.pc = "exited"

\* execute leaving the stage loop when the child it waited for has failed.
executeWaitStopsOnFailure ==
    /\ pc = "wait"
    /\ waitReturns(procs[Len(procs)])
    /\ procs' = [procs EXCEPT ![Len(procs)].reaped = (procs[Len(procs)].pc = "exited")]
    /\ curr' = IF procs[Len(procs)].status = 0 THEN curr + 1
               ELSE Len(commands) + 1
    /\ pc' = "stage"
    /\ UNCHANGED <<nread, history, line, commands, fd, prevPipe, shellFds, pipes, files,
                   terminal, env, cwd, stderr, envBefore, filesBefore, tokenPtr, subtokenPtr, argv, inputStream, exitStatus>>

\* waitpid(pid, &status, 0) returns once the child forked for this stage has
\* ended.  It cannot return -1 here: pid is a child not yet waited for, the
\* options are valid and the shell installs no signal handler.
executeWait ==
    /\ pc = "wait"
    /\ waitReturns(procs[Len(procs)])
    /\ procs' = [procs EXCEPT ![Len(procs)].reaped = (procs[Len(procs)].pc = "exited")]
    /\ curr' = curr + 1
    /\ pc' = "stage"
    /\ UNCHANGED <<nread, history, line, commands, fd, prevPipe, shellFds, pipes, files,
                   terminal, env, cwd, stderr, envBefore,
                   filesBefore, tokenPtr, subtokenPtr, argv, inputStream, exitStatus>>

\* Run.c execute, the freeing loop, for one Command: the blocks it frees
\* are the argCount arguments, the input and output paths that are set, and
\* the Command.
FreedByExecute(command) ==
    command.argCount + (IF command.input # NULL THEN 1 ELSE 0)
    + (IF command.output # NULL THEN 1 ELSE 0) + 1

\* After the stage loop: safeClose(prevPipe), every Command freed, return to
\* run.
executeReturn ==
    /\ pc = "stage"
    /\ curr > Len(commands)
    /\ shellFds' = closeAfterLoop(shellFds, prevPipe)
    /\ commands' = NULL
    /\ curr' = 1
    /\ fd' = <<Uninit, Uninit>>
    /\ prevPipe' = -1
    /\ pc' = "getline"
    /\ UNCHANGED <<nread, history, line, procs, pipes, files, terminal, env, cwd,
                   stderr, envBefore,
                   filesBefore, tokenPtr, subtokenPtr, argv, inputStream, exitStatus>>

(***************************************************************************)
(* execute, in a child: the branch pid == 0.  A child is a record of       *)
(* procs; its steps interleave with the shell's.                           *)
(***************************************************************************)
\* exit(status) in a child: every descriptor it holds is closed.
Exited(p, status) ==
    [p EXCEPT !.pc = "exited", !.status = status, !.fds = NoFds,
              !.buf = <<>>]

\* fopen(name, mode) followed by dup2(fileno, target) and fclose.
OpenOnto(t, name, mode, target) ==
    LET f == LowestFree(t)
    IN  close(dup2([t EXCEPT ![f] = FileDesc(name, mode)], f, target), f)

\* handleInputRedirection going on to the output when the input file
\* cannot be opened.
handleInputRedirectionGoesOn(p, fs) ==
    IF p.cmd.input # NULL
    THEN IF p.cmd.input[1] \notin DOMAIN fs
         THEN [p EXCEPT !.pc = "output"]
         ELSE [p EXCEPT !.pc = "output",
                        !.fds = OpenOnto(p.fds, p.cmd.input[1], "r",
                                         STDIN_FILENO)]
    ELSE IF p.prevPipe # -1
    THEN IF ~IsOpen(p.fds, p.prevPipe)
         THEN Exited(p, 1)
         ELSE [p EXCEPT !.pc = "output",
                        !.fds = safeClose(dup2(p.fds, p.prevPipe, STDIN_FILENO),
                                          p.prevPipe)]
    ELSE [p EXCEPT !.pc = "output"]

\* Run.c handleInputRedirection in child p, fs being the files that exist.
handleInputRedirection(p, fs) ==
    IF p.cmd.input # NULL
    THEN IF p.cmd.input[1] \notin DOMAIN fs
         THEN Exited(p, 1)
         ELSE [p EXCEPT !.pc = "output",
                        !.fds = OpenOnto(p.fds, p.cmd.input[1], "r",
                                         STDIN_FILENO)]
    ELSE IF p.prevPipe # -1
    THEN IF ~IsOpen(p.fds, p.prevPipe)
         THEN Exited(p, 1)
         ELSE [p EXCEPT !.pc = "output",
                        !.fds = safeClose(dup2(p.fds, p.prevPipe, STDIN_FILENO),
                                          p.prevPipe)]
    ELSE [p EXCEPT !.pc = "output"]

\* Run.c handleOutputRedirection in child p, reading fd[0] as f0 and fd[1]
\* as f1.
handleOutputRedirection(p, f0, f1) ==
    IF p.cmd.output # NULL
    THEN IF p.cmd.output[1] \in Unwritable
         THEN Exited(p, 1)
         ELSE [p EXCEPT !.pc = "exec",
                        !.fds = OpenOnto(p.fds, p.cmd.output[1],
                                         IF p.cmd.append = 1 THEN "a" ELSE "w",
                                         STDOUT_FILENO)]
    ELSE IF ~p.last
    THEN IF ~IsOpen(p.fds, f1)
         THEN Exited(p, 1)
         ELSE [p EXCEPT !.pc = "exec",
                        !.fds = safeClose(safeClose(
                                    dup2(p.fds, f1, STDOUT_FILENO), f0), f1)]
    ELSE [p EXCEPT !.pc = "exec"]

\* fopen truncating whatever the mode.
OpenedAlwaysTruncates(fs, command) ==
    IF command.output = NULL \/ command.output[1] \in Unwritable
    THEN fs
    ELSE [n \in DOMAIN fs \cup {command.output[1]} |->
             IF n = command.output[1] THEN <<>> ELSE fs[n]]

\* fopen(name, "w") truncates or creates; fopen(name, "a") creates.
Opened(fs, command) ==
    IF command.output = NULL \/ command.output[1] \in Unwritable
    THEN fs
    ELSE LET name == command.output[1]
         IN  [n \in DOMAIN fs \cup {name} |->
                 IF n = name /\ (command.append = 0 \/ n \notin DOMAIN fs)
                 THEN <<>> ELSE fs[n]]

childInput(k) ==
    /\ procs[k].pc = "input"
    /\ procs' = [procs EXCEPT ![k] = handleInputRedirection(procs[k], files)]
    /\ UNCHANGED <<pc, nread, history, line, commands, curr, fd, prevPipe, shellFds,
                   pipes, files, terminal, env, cwd, stderr, envBefore,
                   filesBefore, tokenPtr, subtokenPtr, argv, inputStream, exitStatus>>

childOutput(k) ==
    /\ procs[k].pc = "output"
    /\ \E f0 \in Values(procs[k].fd[1]), f1 \in Values(procs[k].fd[2]) :
           procs' = [procs EXCEPT ![k] = handleOutputRedirection(procs[k], f0, f1)]
    /\ files' = Opened(files, procs[k].cmd)
    /\ UNCHANGED <<pc, nread, history, line, commands, curr, fd, prevPipe, shellFds,
                   pipes, terminal, env, cwd, stderr, envBefore,
                   filesBefore, tokenPtr, subtokenPtr, argv, inputStream, exitStatus>>

\* execvp(*curr->args, curr->args): the program starts, or the child exits.
execvp(p) ==
    IF p.cmd.argCount = 0 \/ p.cmd.args[1] \notin Programs
    THEN [Exited(p, 1) EXCEPT !.stdinAtExec = p.fds[STDIN_FILENO],
                              !.stdoutAtExec = p.fds[STDOUT_FILENO]]
    ELSE [p EXCEPT !.pc = "run",
                   !.stdinAtExec = p.fds[STDIN_FILENO],
                   !.stdoutAtExec = p.fds[STDOUT_FILENO],
                   !.buf = IF p.cmd.args[1] = EchoName
                           THEN EchoOutput(p.cmd.args, 2) ELSE <<>>,
                   !.eof = (p.cmd.args[1] = EchoName)]

childExec(k) ==
    /\ procs[k].pc = "exec"
    /\ procs' = [procs EXCEPT ![k] = execvp(procs[k])]
    /\ UNCHANGED <<pc, nread, history, line, commands, curr, fd, prevPipe, shellFds,
                   pipes, files, terminal, env, cwd, stderr, envBefore,
                   filesBefore, tokenPtr, subtokenPtr, argv, inputStream, exitStatus>>

(***************************************************************************)
(* A started program: echo and cat, one read or write at a time.           *)
(***************************************************************************)
Holds(t, d) == \E n \in FdNums : t[n] = d
HasHolder(d) == Holds(shellFds, d) \/ \E k \in 1..Len(procs) : Holds(procs[k].fds, d)

Min(a, b) == IF a <= b THEN a ELSE b

\* write(1, buf): what becomes of the process and of what it writes to; a
\* full pipe that still has a reader blocks.
WriteBlocked(p) ==
    LET out == p.fds[STDOUT_FILENO]
    IN  /\ out.kind = "pipe"
        /\ out.end = "w"
        /\ HasHolder(PipeEnd(out.pipe, "r"))
        /\ Len(pipes[out.pipe].buf) >= PipeCap

Write(p) ==
    LET out == p.fds[STDOUT_FILENO]
        same == [pipes |-> pipes, files |-> files, terminal |-> terminal]
    IN  IF out.kind = "tty"
        THEN [same EXCEPT !.terminal = @ \o p.buf] @@ [p |-> [p EXCEPT !.buf = <<>>]]
        ELSE IF out.kind = "file" /\ out.mode # "r"
        THEN [same EXCEPT !.files[out.name] = @ \o p.buf]
             @@ [p |-> [p EXCEPT !.buf = <<>>]]
        ELSE IF out.kind = "pipe" /\ out.end = "w"
                /\ HasHolder(PipeEnd(out.pipe, "r"))
        THEN LET n == Min(PipeCap - Len(pipes[out.pipe].buf), Len(p.buf))
             IN  [same EXCEPT !.pipes[out.pipe].buf = @ \o SubSeq(p.buf, 1, n)]
                 @@ [p |-> [p EXCEPT !.buf = SubSeq(@, n + 1, Len(@))]]
        ELSE same @@ [p |-> Exited(p, 1)]

\* read(0): an empty pipe that still has a writer blocks; the terminal is
\* at end of input.
ReadBlocked(p) ==
    LET in == p.fds[STDIN_FILENO]
    IN  /\ in.kind = "pipe"
        /\ in.end = "r"
        /\ pipes[in.pipe].buf = <<>>
        /\ HasHolder(PipeEnd(in.pipe, "w"))

Read(p) ==
    LET in == p.fds[STDIN_FILENO]
        same == [pipes |-> pipes, files |-> files, terminal |-> terminal]
    IN  IF in.kind = "tty"
        THEN same @@ [p |-> [p EXCEPT !.eof = TRUE]]
        ELSE IF in.kind = "file" /\ in.mode = "r"
        THEN same @@ [p |-> [p EXCEPT !.buf = files[in.name], !.eof = TRUE]]
        ELSE IF in.kind = "pipe" /\ in.end = "r"
        THEN IF pipes[in.pipe].buf # <<>>
             THEN [same EXCEPT !.pipes[in.pipe].buf = <<>>]
                  @@ [p |-> [p EXCEPT !.buf = pipes[in.pipe].buf]]
             ELSE same @@ [p |-> [p EXCEPT !.eof = TRUE]]
        ELSE same @@ [p |-> Exited(p, 1)]

programStep(k) ==
    /\ procs[k].pc = "run"
    /\ LET p == procs[k]
           r == IF p.buf # <<>> THEN Write(p)
                ELSE IF ~p.eof THEN Read(p)
                ELSE [pipes |-> pipes, files |-> files, terminal |-> terminal,
                      p |-> Exited(p, 0)]
       IN  /\ p.buf # <<>> => ~WriteBlocked(p)
           /\ (p.buf = <<>> /\ ~p.eof) => ~ReadBlocked(p)
           /\ procs' = [procs EXCEPT ![k] = r.p]
           /\ pipes' = r.pipes
           /\ files' = r.files
           /\ terminal' = r.terminal
    /\ UNCHANGED <<pc, nread, history, line, commands, curr, fd, prevPipe, shellFds,
                   env, cwd, stderr, envBefore,
                   filesBefore, tokenPtr, subtokenPtr, argv, inputStream, exitStatus>>

(***************************************************************************)
(* The shell as a whole, and the parser alone on every short line.         *)
(***************************************************************************)
Next ==
    \/ getline(ScriptLines)
    \/ getlineEOF
    \/ parseLine
    \/ executeCd
    \/ executeCrash
    \/ executeFork
    \/ executeForkFails
    \/ executePiping
    \/ executePipeFails
    \/ executeWait
    \/ executeReturn
    \/ \E k \in 1..Len(procs) : childInput(k)
    \/ \E k \in 1..Len(procs) : childOutput(k)
    \/ \E k \in 1..Len(procs) : childExec(k)
    \/ \E k \in 1..Len(procs) : programStep(k)

Spec == Init /\ [][Next]_vars

(***************************************************************************)
(* A session: up to MaxSessionLines lines, each one of SessionLines, read  *)
(* by a shell that inherited HOME or an empty environment.                 *)
(***************************************************************************)
MaxSessionLines == 3

AssignD == <<"a", "=", "/", "d">>
AssignH == <<"a", "=", "/", "h">>
CdHome == <<"c", "d">>
CdVar == <<"c", "d", " ", "$", "a">>
CdLast == <<"c", "d", " ", "/", "h", " ", "/", "d">>
CdMissing == <<"c", "d", " ", "/", "n">>
EchoVars == <<"e", "c", "h", "o", " ", "$", "a", " ", "$", "b">>
EchoToO == <<"e", "c", "h", "o", " ", "h", "i", " ", ">", " ", "o">>
EchoAppendO == <<"e", "c", "h", "o", " ", "h", "i", " ", ">", ">", " ", "o">>

BadAssign == <<"1", "=", "/", "d">>

SessionLines ==
    {AssignD, AssignH, CdHome, CdVar, CdLast, Join(<<CdMissing, EchoHi>>),
     Join(<<EchoVars, Cat>>), EchoToO, EchoAppendO, Blank,
     Join(<<CdDir, EchoHi>>), BadAssign, Nope}

NoEnv == [n \in {} |-> <<>>]

InitSession ==
    /\ pc = "getline"
    /\ nread = 0
    /\ history = <<>>
    /\ line = <<>>
    /\ commands = NULL
    /\ curr = 1
    /\ fd = <<Uninit, Uninit>>
    /\ prevPipe = -1
    /\ shellFds = StdFds
    /\ procs = <<>>
    /\ pipes = <<>>
    /\ files = InitFiles
    /\ terminal = <<>>
    /\ env \in {InitEnv, NoEnv}
    /\ cwd = InitCwd
    /\ stderr = <<>>
    /\ envBefore = env
    /\ filesBefore = InitFiles
    /\ tokenPtr = 0
    /\ subtokenPtr = 0
    /\ argv = ScriptArgv
    /\ inputStream = Script
    /\ exitStatus = NULL

NextSession ==
    \/ readLine(SessionLines, MaxSessionLines)
    \/ getlineEOF
    \/ parseLine
    \/ executeCd
    \/ executeCrash
    \/ executeFork
    \/ executeForkFails
    \/ executePiping
    \/ executePipeFails
    \/ executeWait
    \/ executeReturn
    \/ \E k \in 1..Len(procs) : childInput(k)
    \/ \E k \in 1..Len(procs) : childOutput(k)
    \/ \E k \in 1..Len(procs) : childExec(k)
    \/ \E k \in 1..Len(procs) : programStep(k)

SpecSession == InitSession /\ [][NextSession]_vars

\* ---------------------------------------------------------------------
\* One line with a cd stage after an external stage: in the middle of the
\* pipeline or at its end, with and without redirections of its own.
\* ---------------------------------------------------------------------
CdToO == <<"c", "d", " ", "/", "d", " ", ">", " ", "o">>
CdFromN == <<"c", "d", " ", "/", "n", " ", "<", " ", "n">>
CdAppendF == <<"c", "d", " ", "/", "d", " ", ">", ">", " ", "f">>
CdLines ==
    {Join(<<EchoHi, CdToO, Cat>>), Join(<<EchoHi, CdFromN, Cat>>),
     Join(<<EchoHi, CdDir, CdHome, Cat>>), Join(<<CatFromF, CdAppendF>>),
     Join(<<EchoHi, CdToO>>), Join(<<CdDir, Cat>>), Join(<<EchoHi, CdDir, Blank>>)}

NextCd ==
    \/ getline(CdLines)
    \/ getlineEOF
    \/ parseLine
    \/ executeCd
    \/ executeCrash
    \/ executeFork
    \/ executeForkFails
    \/ executePiping
    \/ executePipeFails
    \/ executeWait
    \/ executeReturn
    \/ \E k \in 1..Len(procs) : childInput(k)
    \/ \E k \in 1..Len(procs) : childOutput(k)
    \/ \E k \in 1..Len(procs) : childExec(k)
    \/ \E k \in 1..Len(procs) : programStep(k)

SpecCd == Init /\ [][NextCd]_vars

\* ---------------------------------------------------------------------
\* One pipeline whose later stages read from a pipe, under a fair
\* scheduler: the stage before wrote to the pipe's place, to a file, or
\* failed.
\* ---------------------------------------------------------------------
PipeLines ==
    {Join(<<EchoHi, Cat>>), Join(<<EchoToF, Cat>>), Join(<<Nope, Cat>>),
     Join(<<CatFromN, Cat>>), Join(<<CatFromF, Cat, Cat>>),
     Join(<<EchoHi, CdDir, Cat>>), Join(<<EchoHi, Blank>>)}

\* Every step of the shell and of its children but the call of parse.
PipeSteps ==
    \/ getline(PipeLines)
    \/ getlineEOF
    \/ executeCd
    \/ executeCrash
    \/ executeFork
    \/ executeForkFails
    \/ executePiping
    \/ executePipeFails
    \/ executeWait
    \/ executeReturn
    \/ \E k \in 1..Len(procs) : childInput(k)
    \/ \E k \in 1..Len(procs) : childOutput(k)
    \/ \E k \in 1..Len(procs) : childExec(k)
    \/ \E k \in 1..Len(procs) : programStep(k)

NextPipe == parseLine \/ PipeSteps

\* A process that is not blocked in read, write or waitpid is eventually
\* given the processor, and the call of parse returns.
SpecPipe ==
    Init /\ [][NextPipe]_vars /\ WF_vars(PipeSteps) /\ []<>(pc # "parse")

\* ---------------------------------------------------------------------
\* One line whose stages have redirections: an input file that exists or
\* not, an output file that exists or not or cannot be opened, a program
\* that can be executed or not.
\* ---------------------------------------------------------------------
NopeToO == <<"n", "o", "p", "e", " ", ">", " ", "o">>
NopeToF == <<"n", "o", "p", "e", " ", ">", " ", "f">>
NopeAppendF == <<"n", "o", "p", "e", " ", ">", ">", " ", "f">>
NopeAppendO == <<"n", "o", "p", "e", " ", ">", ">", " ", "o">>
NopeToD == <<"n", "o", "p", "e", " ", ">", " ", "/", "d">>
CatFromNToO == <<"c", "a", "t", " ", "<", " ", "n", " ", ">", " ", "o">>
CatFromNToF == <<"c", "a", "t", " ", "<", " ", "n", " ", ">", " ", "f">>
CatFromFToO == <<"c", "a", "t", " ", "<", " ", "f", " ", ">", " ", "o">>
RedirLines ==
    {NopeToO, NopeToF, NopeAppendF, NopeAppendO, NopeToD, CatFromNToO, CatFromNToF,
     CatFromFToO, EchoToF, Join(<<CatFromNToF, NopeToO>>), Join(<<CdDir, NopeToF>>),
     Join(<<NopeToO, Blank>>)}

NextRedir ==
    \/ getline(RedirLines)
    \/ getlineEOF
    \/ parseLine
    \/ executeCd
    \/ executeCrash
    \/ executeFork
    \/ executeForkFails
    \/ executePiping
    \/ executePipeFails
    \/ executeWait
    \/ executeReturn
    \/ \E k \in 1..Len(procs) : childInput(k)
    \/ \E k \in 1..Len(procs) : childOutput(k)
    \/ \E k \in 1..Len(procs) : childExec(k)
    \/ \E k \in 1..Len(procs) : programStep(k)

SpecRedir == Init /\ [][NextRedir]_vars

\* ---------------------------------------------------------------------
\* The read loop under a fair scheduler: short inputs made of lines with a
\* user error or a failing child, and a blank line.
\* ---------------------------------------------------------------------
MaxLoopLines == 3
LoopLines == {BadAssign, Join(<<CdMissing, EchoHi>>), Join(<<Nope, EchoHi>>), CdHome,
              Blank}

\* Every step of the loop but the call of parse.
LoopSteps ==
    \/ readLine(LoopLines, MaxLoopLines)
    \/ getlineEOF
    \/ executeCd
    \/ executeCrash
    \/ executeFork
    \/ executeForkFails
    \/ executePiping
    \/ executePipeFails
    \/ executeWait
    \/ executeReturn
    \/ \E k \in 1..Len(procs) : childInput(k)
    \/ \E k \in 1..Len(procs) : childOutput(k)
    \/ \E k \in 1..Len(procs) : childExec(k)
    \/ \E k \in 1..Len(procs) : programStep(k)

NextLoop == parseLine \/ LoopSteps

\* The shell and its children are processes of one system: a process that
\* is not blocked in a system call is eventually given the processor, and
\* getline eventually returns a line or end-of-file. The call of parse
\* returns: it is a loop over the tokens of one line (Parse.c:183-247), so
\* the shell is not in it for ever.
SpecLoop ==
    InitSession /\ [][NextLoop]_vars /\ WF_vars(LoopSteps) /\ []<>(pc # "parse")

(***************************************************************************)
(* The parser on every one-segment line of at most MaxWords words, each an *)
(* operator or a plain word.                                               *)
(***************************************************************************)
MaxWords == 4
Ops == {<<">">>, <<">", ">">>, <<"<">>}
Words == Ops \cup {<<"a">>, <<"b">>}

RECURSIVE JoinWords(_)
JoinWords(ws) ==
    IF Len(ws) = 1 THEN ws[1] ELSE ws[1] \o <<" ">> \o JoinWords(Tail(ws))

WordLines ==
    {JoinWords(ws) : ws \in UNION {[1..n -> Words] : n \in 1..MaxWords}}

InitWords ==
    /\ pc = "parse"
    /\ nread = 1
    /\ line \in WordLines
    /\ history = <<>>
    /\ commands = NULL
    /\ curr = 1
    /\ fd = <<Uninit, Uninit>>
    /\ prevPipe = -1
    /\ shellFds = StdFds
    /\ procs = <<>>
    /\ pipes = <<>>
    /\ files = InitFiles
    /\ terminal = <<>>
    /\ env = InitEnv
    /\ cwd = InitCwd
    /\ stderr = <<>>
    /\ envBefore = env
    /\ filesBefore = InitFiles
    /\ tokenPtr = 0
    /\ subtokenPtr = 0
    /\ argv = ScriptArgv
    /\ inputStream = Script
    /\ exitStatus = NULL

NextWords == parseLine

SpecWords == InitWords /\ [][NextWords]_vars

(***************************************************************************)
(* The shell from main on: every command line of at most MaxArgs of the    *)
(* arguments below, and an input of at most MaxMainLines lines.            *)
(***************************************************************************)
MaxArgs == 2
MaxMainLines == 2

DashI == <<"-", "i">>
DashX == <<"-", "x">>
ScriptF == ARG_SCRIPT \o <<"f">>
ScriptN == ARG_SCRIPT \o <<"n">>
InitFileF == <<"-", "-", "i", "n", "i", "t", "-", "f", "i", "l", "e", "=", "f">>
Args == {DashH, ARG_HELP, DashS, ScriptF, ScriptN, <<"f">>, DashI, InitFileF,
         DashX}
Argvs == UNION {[1..n -> Args] : n \in 0..MaxArgs}
MainLines == {CdDir, AssignD}

\* SnailShell.c main: the argument loop, then fopen of the script when one
\* was named, and run on it or on standard input.
main ==
    /\ pc = "main"
    /\ LET r == mainLoop(argv, 1, NULL)
       IN  IF r.ret # NULL
           THEN /\ pc' = "returned"
                /\ exitStatus' = r.ret
                /\ stderr' = r.err
                /\ terminal' = r.out
                /\ inputStream' = inputStream
           ELSE IF r.scriptPath # NULL /\ r.scriptPath[1] \notin DOMAIN files
           THEN /\ pc' = "returned"
                /\ exitStatus' = Some(-1)
                /\ stderr' = <<"perror fopen">>
                /\ terminal' = terminal
                /\ inputStream' = inputStream
           ELSE /\ pc' = "getline"
                /\ exitStatus' = exitStatus
                /\ stderr' = stderr
                /\ terminal' = terminal
                /\ inputStream' = IF r.scriptPath # NULL THEN Script ELSE Stdin
    /\ UNCHANGED <<nread, history, line, commands, curr, fd, prevPipe, shellFds,
                   procs, pipes, files, env, cwd, envBefore, filesBefore, tokenPtr, subtokenPtr, argv>>

InitMain ==
    /\ pc = "main"
    /\ nread = 0
    /\ history = <<>>
    /\ line = <<>>
    /\ commands = NULL
    /\ curr = 1
    /\ fd = <<Uninit, Uninit>>
    /\ prevPipe = -1
    /\ shellFds = StdFds
    /\ procs = <<>>
    /\ pipes = <<>>
    /\ files = InitFiles
    /\ terminal = <<>>
    /\ env = InitEnv
    /\ cwd = InitCwd
    /\ stderr = <<>>
    /\ envBefore = env
    /\ filesBefore = InitFiles
    /\ tokenPtr = 0
    /\ subtokenPtr = 0
    /\ argv \in Argvs
    /\ inputStream = NULL
    /\ exitStatus = NULL

NextMain ==
    \/ main
    \/ readLine(MainLines, MaxMainLines)
    \/ getlineEOF
    \/ parseLine
    \/ executeCd
    \/ executeReturn

SpecMain == InitMain /\ [][NextMain]_vars

InitParse ==
    /\ pc = "parse"
    /\ nread = 1
    /\ line \in AllLines
    /\ history = IF strchr(line, "=") # 0 THEN <<line>> ELSE <<>>
    /\ commands = NULL
    /\ curr = 1
    /\ fd = <<Uninit, Uninit>>
    /\ prevPipe = -1
    /\ shellFds = StdFds
    /\ procs = <<>>
    /\ pipes = <<>>
    /\ files = InitFiles
    /\ terminal = <<>>
    /\ env \in {InitEnv, (<<"a">> :> <<"1">>), (<<"a">> :> <<">">>)}
    /\ cwd = InitCwd
    /\ stderr = <<>>
    /\ envBefore = env
    /\ filesBefore = InitFiles
    /\ tokenPtr = 0
    /\ subtokenPtr = 0
    /\ argv = ScriptArgv
    /\ inputStream = Script
    /\ exitStatus = NULL

NextParse == parseLine

SpecParse == InitParse /\ [][NextParse]_vars

\* ---------------------------------------------------------------------
\* The parser on one-stage lines of many arguments, around the size of
\* the argument array of a Command.
\* ---------------------------------------------------------------------
MAX_NUM_ARGS == 128
MaxManyArgs == 130

\* The line of n one-letter words separated by single blanks.
ManyArgs(n) == [i \in 1..(2 * n - 1) |-> IF i % 2 = 1 THEN "a" ELSE " "]

\* Lines of up to MaxManyArgs arguments, and a few short ones with an
\* assignment, a pipe and redirections.
ArgsLines ==
    {ManyArgs(n) : n \in 0..MaxManyArgs}
    \cup {AssignD, BadAssign, EchoToO, EchoAppendO, CatFromF, OnlyRedirect,
          Join(<<CdMissing, EchoHi>>), Join(<<EchoVars, Cat>>), <<"|">>}

\* One call of strtok_r: the first token of s that starts at or after
\* position from and ends at or before position to, as the positions of its
\* first and last character; NULL when only delimiters are left there.
strtokOnce(s, delims, from, to) ==
    IF \E i \in from..to : s[i] \notin delims
    THEN LET b == CHOOSE i \in from..to :
                      /\ s[i] \notin delims
                      /\ \A m \in from..(i - 1) : s[m] \in delims
             e == CHOOSE j \in b..to :
                      /\ j = to \/ s[j + 1] \in delims
                      /\ \A m \in b..j : s[m] \notin delims
         IN  Some([b |-> b, e |-> e])
    ELSE NULL

\* Parse.c parse, lines 161-182: the empty line and the line with an '='
\* return NULL (the latter after handleVariableAssignment); any other line
\* is copied and the loop over its '|' tokens begins.
parseBegin ==
    /\ pc = "parse"
    /\ IF Len(line) = 0 \/ strchr(line, "=") # 0
       THEN LET r == parse(line, env)
            IN  /\ commands' = r.commands
                /\ env' = r.env
                /\ stderr' = stderr \o r.err
                /\ pc' = "getline"
       ELSE /\ commands' = <<>>
            /\ env' = env
            /\ stderr' = stderr
            /\ pc' = "token"
    /\ tokenPtr' = 0
    /\ subtokenPtr' = 0
    /\ curr' = 1
    /\ fd' = <<Uninit, Uninit>>
    /\ prevPipe' = -1
    /\ UNCHANGED <<nread, history, line, shellFds, procs, pipes, files, terminal, cwd,
                   envBefore, filesBefore, argv, inputStream, exitStatus>>

\* Parse.c parse, the strtok_r of lines 183 and 246 with the head of the
\* while loop (184-203): the next '|' token gets a new Command linked after
\* the others, and the scan of its subtokens starts at its first
\* character; with no token left, lineCopy is freed and head returned
\* (249-250).
parseToken ==
    /\ pc = "token"
    /\ LET token == strtokOnce(line, {"|"}, tokenPtr + 1, Len(line))
       IN  IF token = NULL
           THEN /\ pc' = IF commands # NULL THEN "stage" ELSE "getline"
                /\ commands' = commands
                /\ tokenPtr' = 0
                /\ subtokenPtr' = 0
           ELSE /\ pc' = "subtoken"
                /\ commands' = Append(commands, NewCommand)
                /\ tokenPtr' = token[1].e + 1
                /\ subtokenPtr' = token[1].b
    /\ UNCHANGED <<nread, history, line, curr, fd, prevPipe, shellFds, procs, pipes,
                   files, terminal, env, cwd, stderr, envBefore, filesBefore, argv,
                   inputStream, exitStatus>>

\* The subtoken the loop of lines 204-243 is about to handle, NULL when
\* the token has none left.
Subtoken == strtokOnce(line, {" ", "\t"}, subtokenPtr, tokenPtr - 1)

\* Parse.c parse, one turn of the subtoken loop (204-243): after '>', '>>'
\* or '<' the next subtoken, when there is one, is stored as the path; any
\* other subtoken is stored at args[argCount] and argCount incremented.
\* Nothing compares argCount with MAX_NUM_ARGS.
parseSubtoken ==
    /\ pc = "subtoken"
    /\ Subtoken # NULL
    /\ LET n == Len(commands)
           w == Subtoken[1]
           word == SubSeq(line, w.b, w.e)
           path == strtokOnce(line, {" ", "\t"}, w.e + 1, tokenPtr - 1)
       IN  IF word \in {<<">">>, <<">", ">">>, <<"<">>}
           THEN IF path = NULL
                THEN /\ commands' = commands
                     /\ subtokenPtr' = tokenPtr
                ELSE /\ commands' =
                            IF word = <<"<">>
                            THEN [commands EXCEPT ![n].input =
                                      Some(SubSeq(line, path[1].b, path[1].e))]
                            ELSE [commands EXCEPT ![n].output =
                                      Some(SubSeq(line, path[1].b, path[1].e)),
                                                  ![n].append =
                                      IF word = <<">">> THEN 0 ELSE 1]
                     /\ subtokenPtr' = path[1].e + 1
           ELSE /\ commands' = [commands EXCEPT ![n].args = Append(@, word),
                                                ![n].argCount = @ + 1]
                /\ subtokenPtr' = w.e + 1
    /\ UNCHANGED <<pc, nread, history, line, curr, fd, prevPipe, shellFds, procs,
                   pipes, files, terminal, env, cwd, stderr, envBefore, filesBefore,
                   tokenPtr, argv, inputStream, exitStatus>>

\* Parse.c parse, lines 244-246: with no subtoken left, args[argCount] is
\* set to NULL and the arguments are substituted.
parseSubstitute ==
    /\ pc = "subtoken"
    /\ Subtoken = NULL
    /\ commands' = [commands EXCEPT ![Len(commands)] = substitute(@, env)]
    /\ pc' = "token"
    /\ UNCHANGED <<nread, history, line, curr, fd, prevPipe, shellFds, procs, pipes,
                   files, terminal, env, cwd, stderr, envBefore, filesBefore,
                   tokenPtr, subtokenPtr, argv, inputStream, exitStatus>>

\* Parse.c parse, the stores of lines 235 and 244 when argCount is
\* MAX_NUM_ARGS or more: they are outside the args array of the Command,
\* which is undefined. One outcome is that the process is killed; that it
\* goes on as if the array were longer is parseSubtoken and
\* parseSubstitute.
parseOverflows ==
    /\ pc = "subtoken"
    /\ commands[Len(commands)].argCount >= MAX_NUM_ARGS
    /\ \/ Subtoken = NULL
       \/ /\ Subtoken # NULL
          /\ SubSeq(line, Subtoken[1].b, Subtoken[1].e)
                 \notin {<<">">>, <<">", ">">>, <<"<">>}
    /\ pc' = "crashed"
    /\ shellFds' = NoFds
    /\ UNCHANGED <<nread, history, line, commands, curr, fd, prevPipe, procs, pipes,
                   files, terminal, env, cwd, stderr, envBefore, filesBefore,
                   tokenPtr, subtokenPtr, argv, inputStream, exitStatus>>

InitArgs ==
    /\ pc = "parse"
    /\ nread = 1
    /\ line \in ArgsLines
    /\ history = IF strchr(line, "=") # 0 THEN <<line>> ELSE <<>>
    /\ commands = NULL
    /\ curr = 1
    /\ fd = <<Uninit, Uninit>>
    /\ prevPipe = -1
    /\ shellFds = StdFds
    /\ procs = <<>>
    /\ pipes = <<>>
    /\ files = InitFiles
    /\ terminal = <<>>
    /\ env = InitEnv
    /\ cwd = InitCwd
    /\ stderr = <<>>
    /\ envBefore = env
    /\ filesBefore = InitFiles
    /\ tokenPtr = 0
    /\ subtokenPtr = 0
    /\ argv = ScriptArgv
    /\ inputStream = Script
    /\ exitStatus = NULL

NextArgs ==
    \/ parseBegin
    \/ parseToken
    \/ parseSubtoken
    \/ parseSubstitute
    \/ parseOverflows

SpecArgs == InitArgs /\ [][NextArgs]_vars

\* ---------------------------------------------------------------------
\* The parser on every short line, with variables whose values hold a
\* '$', a blank, a '|' and redirection operators.
\* ---------------------------------------------------------------------
SubstEnvs ==
    {(<<"a">> :> <<"$", "_">>) @@ (<<"_">> :> <<"1">>),
     (<<"a">> :> <<"1", " ", "|", ">", "a">>) @@ (<<"_">> :> <<"<", "\t", "$", "a">>)}

InitSubst ==
    /\ pc = "parse"
    /\ nread = 1
    /\ line \in AllLines
    /\ history = IF strchr(line, "=") # 0 THEN <<line>> ELSE <<>>
    /\ commands = NULL
    /\ curr = 1
    /\ fd = <<Uninit, Uninit>>
    /\ prevPipe = -1
    /\ shellFds = StdFds
    /\ procs = <<>>
    /\ pipes = <<>>
    /\ files = InitFiles
    /\ terminal = <<>>
    /\ env \in SubstEnvs
    /\ cwd = InitCwd
    /\ stderr = <<>>
    /\ envBefore = env
    /\ filesBefore = InitFiles
    /\ tokenPtr = 0
    /\ subtokenPtr = 0
    /\ argv = ScriptArgv
    /\ inputStream = Script
    /\ exitStatus = NULL

NextSubst == parseLine

SpecSubst == InitSubst /\ [][NextSubst]_vars

(***************************************************************************)
(* Properties.                                                             *)
(***************************************************************************)
HiNewline == <<"h", "i", "\n">>
NoPipeIn(t) == \A n \in FdNums : t[n].kind # "pipe"
\* execute has returned for the line that was read.
Returned == pc = "getline" /\ nread >= 1
\* A stage that runs an existing external program with no redirection.
Plain(command) ==
    /\ command.argCount > 0
    /\ command.args[1] \in Programs
    /\ command.input = NULL
    /\ command.output = NULL

\* C1: when the child of an external stage that is not the last one is
\* forked, the pipe to the next stage already exists: the child's copy of fd
\* names the two ends of the pipe created for its own stage.
C1_PipeCreatedBeforeFork ==
    \A k \in 1..Len(procs) :
        (procs[k].pc = "input" /\ ~procs[k].last) =>
            \E i \in 1..Len(pipes) :
                /\ pipes[i].stage = procs[k].stage
                /\ procs[k].fd[1] \in FdNums
                /\ procs[k].fd[2] \in FdNums
                /\ procs[k].fds[procs[k].fd[1]] = PipeEnd(i, "r")
                /\ procs[k].fds[procs[k].fd[2]] = PipeEnd(i, "w")

\* C2: once a pipeline of two or more external stages without redirections
\* has run, each stage's standard output was the write end of the pipe whose
\* read end was the next stage's standard input, the first stage kept the
\* terminal as input, the last kept it as output, and `echo hi | cat` put
\* exactly hi\n on the terminal.
C2_StagesWiredThroughPipes ==
    (/\ Returned
     /\ Len(procs) >= 2
     /\ procs[Len(procs)].last
     /\ \A k \in 1..Len(procs) : Plain(procs[k].cmd) /\ procs[k].stage = k)
    => /\ \A k \in 1..(Len(procs) - 1) :
              \E i \in 1..Len(pipes) :
                  /\ procs[k].stdoutAtExec = PipeEnd(i, "w")
                  /\ procs[k + 1].stdinAtExec = PipeEnd(i, "r")
       /\ procs[1].stdinAtExec = Tty
       /\ procs[Len(procs)].stdoutAtExec = Tty
       /\ line = Join(<<EchoHi, Cat>>) => terminal = HiNewline

\* C3: whenever the shell is outside execute (reading or parsing a line, or
\* returned from run) it holds no open pipe descriptor.
C3_NoPipeHeldAfterExecute ==
    pc \in {"getline", "parse", "returned"} => NoPipeIn(shellFds)

\* C3 witness: execute has returned from a pipeline with an input
\* redirection, two pipes, a trailing cd stage and a child that failed.
C3_Witness ==
    /\ Returned
    /\ line = Join(<<EchoHi, CatFromF, CdDir>>)
    /\ Len(pipes) = 2
    /\ Len(procs) = 2
    /\ \E k \in 1..Len(procs) : procs[k].status = 1
    /\ NoPipeIn(shellFds)

\* C4: children are forked one per stage in left-to-right stage order, and
\* every child but the one forked last has terminated and been waited for,
\* so at most one child is forked and not yet waited for.
C4_OneChildAtATime ==
    /\ \A j, k \in 1..Len(procs) : j < k => procs[j].stage < procs[k].stage
    /\ \A k \in 1..(Len(procs) - 1) :
           procs[k].reaped /\ procs[k].pc = "exited"
    /\ Cardinality({k \in 1..Len(procs) : ~procs[k].reaped}) <= 1

\* C4 witness: the third child of a pipeline has just been forked and the
\* first two have been waited for.
C4_Witness ==
    /\ pc = "forked"
    /\ Len(procs) = 3
    /\ procs[1].reaped
    /\ procs[2].reaped
    /\ procs[3].pc = "input"

\* C5: when `echo hi | cat | cat` has run, where echo writes more bytes than
\* a pipe holds, every stage ended with status 0 and exactly hi\n reached
\* the terminal.
C5_LargeOutputDelivered ==
    (Returned /\ line = Join(<<EchoHi, Cat, Cat>>) /\ Len(HiNewline) > PipeCap)
    => /\ terminal = HiNewline
       /\ Len(procs) = 3
       /\ \A k \in 1..Len(procs) : procs[k].status = 0

\* C6: a child whose program image has been replaced holds no open pipe
\* descriptor other than its standard input and standard output.
C6_NoStrayPipeAtExec ==
    \A k \in 1..Len(procs) :
        procs[k].pc = "run" =>
            \A n \in FdNums \ {STDIN_FILENO, STDOUT_FILENO} :
                procs[k].fds[n].kind # "pipe"

\* C7: a line that is empty or holds only spaces and tabs parses to no
\* pipeline: the shell goes back to reading, with no process created and no
\* crash.
C7_BlankLineParsesToNone ==
    (nread >= 1 /\ pc # "parse" /\ \A i \in 1..Len(line) : line[i] \in {" ", "\t"})
    => pc \in {"getline", "returned"} /\ commands = NULL /\ procs = <<>>

\* C8: a stage with no arguments is rejected when it is reached: no child is
\* forked for it and the shell does not crash.
C8_EmptyStageRejected ==
    /\ pc # "crashed"
    /\ \A k \in 1..Len(procs) : procs[k].cmd.argCount > 0

\* C9: a line holding '=' anywhere parses to no pipeline: once parsed, the
\* shell is back at reading the next line, with no stage to run and no
\* process created.
C9_AssignmentLineRunsNothing ==
    (pc # "parse" /\ strchr(line, "=") # 0)
    => pc = "getline" /\ commands = NULL /\ procs = <<>>

\* C9 witness: a line with '=' after a '|' has been parsed.
C9_Witness ==
    /\ pc = "getline"
    /\ line = <<"a", "|", "a", "=">>
    /\ commands = NULL

\* C10: after an assignment line is parsed, the store holds the text after
\* the first '=' under the name before it, and is otherwise as before, when
\* the name is non-empty and made of letters and underscores only; for any
\* other name the store is as before and an error was reported.
C10_StoreWrittenIffNameValid ==
    (pc # "parse" /\ strchr(line, "=") # 0)
    => LET eq == strchr(line, "=")
           name == SubSeq(line, 1, eq - 1)
           value == SubSeq(line, eq + 1, Len(line))
           valid == /\ name # <<>>
                    /\ \A i \in 1..Len(name) : name[i] \in Letters \cup {"_"}
       IN  IF valid
           THEN /\ DOMAIN env = DOMAIN envBefore \cup {name}
                /\ env[name] = value
                /\ \A n \in DOMAIN envBefore \ {name} : env[n] = envBefore[n]
           ELSE env = envBefore /\ stderr # <<>>

\* C10 witness: a valid assignment has overwritten a variable that was set.
C10_Witness ==
    /\ pc = "getline"
    /\ line = <<"a", "=", "_">>
    /\ envBefore = (<<"a">> :> <<"1">>)
    /\ env = (<<"a">> :> <<"_">>)

\* The name and the value an assignment line gives, and whether the name is
\* one the shell accepts.
NameOf(l) == SubSeq(l, 1, strchr(l, "=") - 1)
ValueOf(l) == SubSeq(l, strchr(l, "=") + 1, Len(l))
ValidName(name) ==
    /\ name # <<>>
    /\ \A i \in 1..Len(name) : name[i] \in Letters \cup {"_"}
\* The places in the history of the valid assignments to name.
AssignmentsTo(name) ==
    {j \in 1..Len(history) : NameOf(history[j]) = name /\ ValidName(name)}
\* The argument words of stage k of the line as typed, before substitution.
RawArgs(k) ==
    tokenize(Tokens(Tokens(line, {"|"})[k], {" ", "\t"}), 1, NewCommand).args

\* C11: in a pipeline line read after any lines, every argument typed as
\* $NAME is handed to the executor as the value of the latest valid
\* assignment to NAME among the lines read, and as the empty string when
\* NAME was never assigned and is not inherited.
C11_VariableIsLatestAssignment ==
    commands # NULL =>
        \A k \in 1..Len(commands) :
            \A i \in 1..Len(RawArgs(k)) :
                LET raw == RawArgs(k)[i]
                    name == Tail(raw)
                    at == AssignmentsTo(name)
                IN  raw[1] = "$" =>
                        /\ at # {} =>
                               \E j \in at :
                                   /\ \A m \in at : m <= j
                                   /\ commands[k].args[i] = ValueOf(history[j])
                        /\ (at = {} /\ name \notin DOMAIN InitEnv) =>
                               commands[k].args[i] = <<>>

\* C11 witness: a was assigned twice and then used; b was never assigned.
C11_Witness ==
    /\ history = <<AssignD, AssignH>>
    /\ line = Join(<<EchoVars, Cat>>)
    /\ commands # NULL
    /\ commands[1].args = <<EchoName, <<"/", "h">>, <<>> >>

\* C12: once a line with a valid name before its first '=' is parsed, the
\* line is that name, '=', and the stored value, character for character,
\* whatever the value holds; no pipeline, process or file comes of it.
C12_ValueStoredLiterally ==
    (pc # "parse" /\ strchr(line, "=") # 0 /\ ValidName(NameOf(line)))
    => /\ NameOf(line) \in DOMAIN env
       /\ line = NameOf(line) \o <<"=">> \o env[NameOf(line)]
       /\ commands = NULL
       /\ procs = <<>>
       /\ files = InitFiles

\* C12 witness: the value $a is stored as typed although a is set.
C12_Witness ==
    /\ pc = "getline"
    /\ line = <<"a", "=", "$", "a">>
    /\ envBefore = (<<"a">> :> <<"1">>)
    /\ env = (<<"a">> :> <<"$", "a">>)

\* What each word of a segment is: a word right after an operator is its
\* path, a word that is not a path and spells an operator is an operator,
\* and every other word is an argument.
Roles(ws) ==
    CHOOSE r \in [1..Len(ws) -> {"op", "path", "arg"}] :
        \A i \in 1..Len(ws) :
            /\ r[i] = "path" <=> (i > 1 /\ r[i - 1] = "op")
            /\ r[i] = "op" <=> (r[i] # "path" /\ ws[i] \in Ops)
\* The operators of the given spellings that have a path after them.
OpsWithPath(ws, spellings) ==
    {i \in 1..(Len(ws) - 1) : Roles(ws)[i] = "op" /\ ws[i] \in spellings}
Last(S) == CHOOSE i \in S : \A j \in S : j <= i

\* C13: the one stage parsed from a segment has as arguments the words
\* that are neither operators nor paths, in order; as input path the word
\* after the last '<'; as output path the word after the last '>' or '>>',
\* with append set exactly when that operator is '>>'.
C13_TokensScannedLeftToRight ==
    (pc # "parse" /\ line \in WordLines)
    => LET ws == Tokens(line, {" ", "\t"})
           c == commands[1]
           argAt == {i \in 1..Len(ws) : Roles(ws)[i] = "arg"}
           ins == OpsWithPath(ws, {<<"<">>})
           outs == OpsWithPath(ws, {<<">">>, <<">", ">">>})
       IN  /\ Len(commands) = 1
           /\ c.argCount = Cardinality(argAt)
           /\ Len(c.args) = Cardinality(argAt)
           /\ \A i \in argAt :
                  c.args[Cardinality({j \in argAt : j <= i})] = ws[i]
           /\ c.input = IF ins = {} THEN NULL ELSE Some(ws[Last(ins) + 1])
           /\ c.output = IF outs = {} THEN NULL ELSE Some(ws[Last(outs) + 1])
           /\ c.append = IF outs # {} /\ ws[Last(outs)] = <<">", ">">>
                         THEN 1 ELSE 0

\* C13 witness: '>>' and then '>' in one segment; the later path is kept
\* and append is cleared.
C13_Witness ==
    /\ pc = "stage"
    /\ line = JoinWords(<< <<">", ">">>, <<"a">>, <<">">>, <<"b">> >>)
    /\ commands[1].output = Some(<<"b">>)
    /\ commands[1].append = 0

\* The words of stage k of the line as typed.
WordsOf(k) == Tokens(Tokens(line, {"|"})[k], {" ", "\t"})

\* C14 as stated: no argument handed to the executor is '<', '>' or '>>'.
C14_NoOperatorAmongArguments ==
    commands # NULL =>
        \A k \in 1..Len(commands) :
            \A i \in 1..Len(commands[k].args) : commands[k].args[i] \notin Ops

\* C14 amended: an argument handed to the executor is '<', '>' or '>>' only
\* as the value substituted for a word $NAME of its segment; no operator
\* typed on the line is among the arguments.
C14_OperatorOnlyBySubstitution ==
    commands # NULL =>
        \A k \in 1..Len(commands) :
            \A i \in 1..Len(commands[k].args) :
                commands[k].args[i] \in Ops =>
                    \E j \in 1..Len(WordsOf(k)) :
                        /\ WordsOf(k)[j][1] = "$"
                        /\ getenv(env, Tail(WordsOf(k)[j])) = Some(commands[k].args[i])

\* C14 witness: $a is typed while a holds '>'; the stage's only argument is
\* '>'.
C14_Witness ==
    /\ pc = "stage"
    /\ line = <<"$", "a">>
    /\ env = (<<"a">> :> <<">">>)
    /\ commands[1].args = << <<">">> >>

\* C15: a line whose last word is an operator with no word after it is a
\* parse error: once parsed, an error was reported, there is no pipeline to
\* run and the shell is back at reading the next line.
C15_DanglingOperatorRejected ==
    (/\ pc # "parse"
     /\ line \in WordLines
     /\ Roles(Tokens(line, {" ", "\t"}))[Len(Tokens(line, {" ", "\t"}))] = "op")
    => /\ stderr # <<>>
       /\ commands = NULL
       /\ pc = "getline"

\* The shell is at a stage whose first argument is cd.
AtCd == pc = "stage" /\ curr <= Len(commands) /\ IsCd(commands[curr])
\* Where that stage asks to go: its last argument when it has more than
\* one, else the value of HOME, else nowhere.
CdTarget ==
    LET c == commands[curr]
    IN  IF Len(c.args) > 1 THEN Some(c.args[Len(c.args)])
        ELSE IF HOME \in DOMAIN env THEN Some(env[HOME])
        ELSE NULL
CdCanEnter == CdTarget # NULL /\ CdTarget[1] \in Dirs

\* C16: every step taken from a cd stage is the cd itself, run in the
\* shell: no child is forked, and when the target (last argument, else
\* HOME) can be entered it becomes the working directory.
C16_CdRunsInShell ==
    [][AtCd => /\ procs' = procs
               /\ pc' = "stage"
               /\ CdCanEnter => cwd' = CdTarget[1]]_vars

\* C16 witness: cd /h /d was run: the shell is in /d, the last argument,
\* with no child forked.
C16_Witness ==
    /\ Returned
    /\ nread = 1
    /\ line = CdLast
    /\ cwd = <<"/", "d">>
    /\ procs = <<>>

\* C17: a cd whose target is missing (no argument and HOME unset) or cannot
\* be entered leaves the working directory as it was, reports an error, and
\* the shell goes on to the next stage.
C17_FailedCdIsNotFatal ==
    [][(AtCd /\ ~CdCanEnter)
       => /\ cwd' = cwd
          /\ Len(stderr') > Len(stderr)
          /\ pc' = "stage"
          /\ curr' = curr + 1
          /\ shellFds' = shellFds]_vars

\* C17 witness: cd /n | echo hi was run: the cd failed and was reported,
\* the directory is unchanged and echo, the next stage, ran.
C17_Witness ==
    /\ Returned
    /\ nread = 1
    /\ line = Join(<<CdMissing, EchoHi>>)
    /\ cwd = InitCwd
    /\ stderr # <<>>
    /\ terminal = HiNewline

\* The stages of the line that was read, and those of them that are run in
\* a child.
StagesOfLine == parse(line, envBefore).commands
ExternalStages == {k \in 1..Len(StagesOfLine) : ~IsCd(StagesOfLine[k])}

\* C18: on a line whose stages all have a name, a child whose program has
\* started has as standard input its input file if it names one, else the
\* read end of the previous stage's pipe if there is one, else the terminal
\* when no pipe precedes it; and as standard output its output file if it
\* names one, else the write end of the pipe created for its stage if it is
\* not last, else the terminal.
C18_RedirectThenPipeThenShell ==
    \A k \in 1..Len(procs) :
        LET p == procs[k]
            before == {i \in 1..Len(pipes) : pipes[i].stage < p.stage}
        IN  (/\ p.pc = "run"
             /\ \A j \in 1..Len(StagesOfLine) : ~NullName(StagesOfLine[j])) =>
                /\ IF p.cmd.input # NULL
                   THEN p.stdinAtExec = FileDesc(p.cmd.input[1], "r")
                   ELSE /\ \A i \in 1..Len(pipes) :
                               pipes[i].stage = p.stage - 1 =>
                                   p.stdinAtExec = PipeEnd(i, "r")
                        /\ before = {} => p.stdinAtExec = Tty
                /\ IF p.cmd.output # NULL
                   THEN p.stdoutAtExec.kind = "file"
                        /\ p.stdoutAtExec.name = p.cmd.output[1]
                   ELSE IF ~p.last
                   THEN \E i \in 1..Len(pipes) :
                            /\ pipes[i].stage = p.stage
                            /\ p.stdoutAtExec = PipeEnd(i, "w")
                   ELSE p.stdoutAtExec = Tty

\* C19: once echo hi > o has run, o holds exactly hi\n; once echo hi >> o
\* has run, o holds what it held when the line was read (nothing when it
\* did not exist) followed by hi\n; in both cases nothing reached the
\* terminal.
C19_TruncateAndAppend ==
    Returned =>
        /\ line = EchoToO =>
               /\ <<"o">> \in DOMAIN files
               /\ files[<<"o">>] = HiNewline
               /\ terminal = <<>>
        /\ line = EchoAppendO =>
               /\ <<"o">> \in DOMAIN files
               /\ files[<<"o">>] =
                      (IF <<"o">> \in DOMAIN filesBefore
                       THEN filesBefore[<<"o">>] ELSE <<>>) \o HiNewline
               /\ terminal = <<>>

\* C19 witness: echo hi > o and then echo hi >> o were run; o holds hi\n
\* twice.
C19_Witness ==
    /\ Returned
    /\ nread = 2
    /\ line = EchoAppendO
    /\ filesBefore = InitFiles @@ (<<"o">> :> HiNewline)
    /\ files[<<"o">>] = HiNewline \o HiNewline

\* C20: a step in which a child ends with a non-zero status changes
\* nothing of the shell or of another child; and when execute has returned
\* from a line whose stages all have a name, one child was forked for each
\* stage that is not cd, in order, each was waited for, the pipeline was
\* freed and the shell holds no pipe.
C20_ChildFailureStaysInChild ==
    /\ [][\A k \in 1..Len(procs) :
              (/\ Len(procs') = Len(procs)
               /\ procs[k].status = -1
               /\ procs'[k].status > 0)
              => /\ procs'[k].pc = "exited"
                 /\ \A j \in 1..Len(procs) : j # k => procs'[j] = procs[j]
                 /\ UNCHANGED <<pc, curr, commands, fd, prevPipe, shellFds,
                                env, cwd, line, nread>>]_vars
    /\ [](Returned /\ (\A k \in 1..Len(StagesOfLine) : ~NullName(StagesOfLine[k]))
          => /\ Len(procs) = Cardinality(ExternalStages)
             /\ \A j \in 1..Len(procs) :
                    /\ procs[j].stage \in ExternalStages
                    /\ procs[j].reaped
                    /\ \A i \in 1..(j - 1) : procs[i].stage < procs[j].stage
             /\ commands = NULL
             /\ NoPipeIn(shellFds))

\* C20 witness: nope | echo hi was run: the first child failed, the second
\* ran and printed, and the shell is back at reading.
C20_Witness ==
    /\ Returned
    /\ line = Join(<<Nope, EchoHi>>)
    /\ Len(procs) = 2
    /\ procs[1].status = 1
    /\ procs[2].status = 0
    /\ terminal = HiNewline

\* Child k is at a dup2 onto its standard input or output (it names no file
\* there) and the step ends it: the dup2 failed.
DupFails(k) ==
    /\ Len(procs') = Len(procs)
    /\ procs'[k].pc = "exited"
    /\ \/ procs[k].pc = "input" /\ procs[k].cmd.input = NULL
       \/ procs[k].pc = "output" /\ procs[k].cmd.output = NULL

\* C21: a step in which fork, pipe or a dup2 fails ends the shell process:
\* in particular, when a child's dup2 onto its standard input or output
\* fails, the shell is terminated by that step.
C21_SyscallFailureEndsShell ==
    [][\A k \in 1..Len(procs) : DupFails(k) => pc' = "exited"]_vars

\* The number of '|' characters of a line.
RECURSIVE Bars(_)
Bars(l) ==
    IF l = <<>> THEN 0
    ELSE (IF Head(l) = "|" THEN 1 ELSE 0) + Bars(Tail(l))
IsBlankLine(l) == \A i \in 1..Len(l) : l[i] \in {" ", "\t"}

\* C27: a line that is not blank and holds no '=' parses to a pipeline of
\* one stage per '|'-separated segment: as many stages as the line has '|'
\* characters, plus one.
C27_OneStagePerSegment ==
    (pc # "parse" /\ ~IsBlankLine(line) /\ strchr(line, "=") = 0)
    => /\ pc = "stage"
       /\ Len(commands) = Bars(line) + 1

\* Stage k of the line as tokenized, before substitution.
RawStage(k) == tokenize(WordsOf(k), 1, NewCommand)

\* C28: every stage parse returns has the redirect paths and the append
\* flag of its segment as tokenized, untouched by substitution, and as many
\* arguments, in the same order: one typed with a leading '$' is the value
\* of the variable named by the rest of it, or empty when that is not set,
\* and any other is as typed.
C28_ArgumentsSubstitutedPathsKept ==
    commands # NULL =>
        \A k \in 1..Len(commands) :
            LET raw == RawStage(k)
                c == commands[k]
            IN  /\ c.input = raw.input
                /\ c.output = raw.output
                /\ c.append = raw.append
                /\ c.argCount = raw.argCount
                /\ Len(c.args) = Len(raw.args)
                /\ \A i \in 1..Len(raw.args) :
                       c.args[i] =
                           IF raw.args[i][1] # "$" THEN raw.args[i]
                           ELSE IF Tail(raw.args[i]) \in DOMAIN envBefore
                           THEN envBefore[Tail(raw.args[i])]
                           ELSE <<>>

\* C28 witness: the input path $a is kept as typed although a is set.
C28_Witness ==
    /\ pc = "stage"
    /\ line = <<"<", " ", "$", "a">>
    /\ env = (<<"a">> :> <<"1">>)
    /\ commands[1].input = Some(<<"$", "a">>)
    /\ commands[1].args = <<>>

\* The descriptors of the shell that are pipe ends.
ShellPipeFds == {n \in FdNums : shellFds[n].kind = "pipe"}

\* C30: while execute is at a stage, between a fork and handlePiping, or
\* waiting, the shell holds at most one pipe descriptor: the read end of the
\* pipe created last, which prevPipe names; it never holds a write end.
C30_ShellHoldsOneReadEnd ==
    pc \in {"stage", "forked", "wait"} =>
        /\ Cardinality(ShellPipeFds) <= 1
        /\ \A n \in ShellPipeFds :
               /\ shellFds[n] = PipeEnd(Len(pipes), "r")
               /\ prevPipe = n
        /\ ShellPipeFds = {} => (prevPipe = -1 \/ pipes = <<>>)

\* C30 witness: the shell waits for the second child of three stages; the
\* first pipe's read end is closed and it holds the second pipe's read end
\* only.
C30_Witness ==
    /\ pc = "wait"
    /\ Len(procs) = 2
    /\ Len(pipes) = 2
    /\ ShellPipeFds = {prevPipe}
    /\ shellFds[prevPipe] = PipeEnd(2, "r")

\* C22: for the stage parsed from a segment, the blocks execute frees are
\* as many as the blocks parse left allocated for it: none stays
\* unreleased.
C22_EveryBlockFreedOnce ==
    (pc = "stage" /\ line \in WordLines)
    => LiveAfterParse(Tokens(line, {" ", "\t"})) = FreedByExecute(commands[1])

\* The names the assignment lines read so far assign validly.
AssignedNames ==
    {NameOf(history[j]) : j \in {i \in 1..Len(history) : ValidName(NameOf(history[i]))}}

\* C23: a child is forked with the shell's working directory and
\* environment of that moment, and keeps them whatever the shell does
\* afterwards; so every child holds, for each name assigned in an earlier
\* line, the value of the latest valid assignment to it.
C23_ChildrenInheritShellState ==
    /\ [][Len(procs') >= Len(procs) =>
              \A k \in 1..Len(procs') :
                  IF k <= Len(procs)
                  THEN /\ procs'[k].cwd = procs[k].cwd
                       /\ procs'[k].env = procs[k].env
                  ELSE /\ procs'[k].cwd = cwd
                       /\ procs'[k].env = env]_vars
    /\ [](\A k \in 1..Len(procs) :
              \A name \in AssignedNames :
                  /\ name \in DOMAIN procs[k].env
                  /\ \E j \in AssignmentsTo(name) :
                         /\ \A m \in AssignmentsTo(name) : m <= j
                         /\ procs[k].env[name] = ValueOf(history[j]))

\* C23 witness: a=/h was read, then cd /d | echo hi: the child forked for
\* echo started in /d with a set to /h.
C23_Witness ==
    /\ Returned
    /\ nread = 2
    /\ history = <<AssignH>>
    /\ line = Join(<<CdDir, EchoHi>>)
    /\ Len(procs) = 1
    /\ procs[1].cwd = <<"/", "d">>
    /\ procs[1].env[<<"a">>] = <<"/", "h">>

\* Arguments that are no flag of the shell, and the command lines that
\* name the existing script f and nothing else.
UnknownArgs == {<<"f">>, DashI, InitFileF, DashX}
ScriptArgvs == {<<DashS, <<"f">> >>, <<ScriptF>>}
\* Command lines on which main meets an unknown argument, or -s with no
\* path after it, before anything else stops it.
BadArgvs ==
    {a \in Argvs : /\ a # <<>>
                   /\ \/ a[1] \in UnknownArgs
                      \/ a = <<DashS>>
                      \/ Len(a) = 2 /\ a[1] \in {ScriptF, ScriptN}
                                    /\ a[2] \in UnknownArgs \cup {DashS}}

\* C25: once main has handled the command line: with -s f or --script=f
\* the shell reads the script and never prints the prompt; with no argument
\* it reads standard input and the prompt is what it printed last before
\* each read; with an unknown argument or -s without a path it has printed
\* an error and returned non-zero, no line read, nothing changed.
C25_CommandLineSelectsMode ==
    pc # "main" =>
        /\ argv \in ScriptArgvs =>
               /\ inputStream = Script
               /\ terminal = <<>>
               /\ pc = "returned" => exitStatus = Some(0)
        /\ argv = <<>> =>
               /\ inputStream = Stdin
               /\ pc = "parse" => terminal = cwd \o <<" ", ">", " ">>
               /\ pc = "returned" =>
                      /\ exitStatus = Some(0)
                      /\ Len(terminal) >= Len(cwd) + 3
                      /\ SubSeq(terminal, Len(terminal) - Len(cwd) - 2, Len(terminal))
                             = cwd \o <<" ", ">", " ">>
        /\ argv \in BadArgvs =>
               /\ pc = "returned"
               /\ exitStatus # NULL
               /\ exitStatus # Some(0)
               /\ stderr # <<>>
               /\ nread = 0
               /\ inputStream = NULL
               /\ cwd = InitCwd /\ env = InitEnv

\* C25 witness: started with -s f, the shell read two lines of the script
\* and returned 0 at its end without a prompt.
C25_Witness ==
    /\ argv = <<DashS, <<"f">> >>
    /\ pc = "returned"
    /\ nread = 2
    /\ inputStream = Script
    /\ exitStatus = Some(0)
    /\ terminal = <<>>

\* C26: started with -i f or --init-file=f, the shell runs the lines of f
\* in script mode.
C26_InitFileFlagRunsScript ==
    (pc # "main" /\ argv \in {<<DashI, <<"f">> >>, <<InitFileF>>})
    => /\ inputStream = Script
       /\ pc = "returned" => exitStatus = Some(0)

\* C29: a step changes the Variable Store only when it parses a line that
\* is a valid assignment, and then only the named variable changes; every
\* other step (parsing a pipeline line, a cd stage, fork, pipe, wait, the
\* children's steps and failures) leaves every variable as it was.
C29_StoreWrittenOnlyByAssignment ==
    [][env' # env =>
          /\ pc = "parse"
          /\ strchr(line, "=") # 0
          /\ ValidName(NameOf(line))
          /\ DOMAIN env' = DOMAIN env \cup {NameOf(line)}
          /\ env'[NameOf(line)] = ValueOf(line)
          /\ \A n \in DOMAIN env \ {NameOf(line)} : env'[n] = env[n]]_vars

\* C29 witness: after the assignment a=/d, a line with a failing cd and an
\* external stage has been run to its end; a holds /d and HOME is as it
\* was at the start.
C29_Witness ==
    /\ Returned
    /\ nread = 2
    /\ history = <<AssignD>>
    /\ line = Join(<<CdMissing, EchoHi>>)
    /\ envBefore = env
    /\ env = [n \in DOMAIN InitEnv \cup {<<"a">>} |->
                 IF n = <<"a">> THEN <<"/", "d">> ELSE InitEnv[n]]

\* The shell ended in execute because fork or pipe failed.
FatalInExecute ==
    /\ pc = "exited"
    /\ curr <= Len(commands)
    /\ ~IsCd(commands[curr])

\* The line just read has a user error (an invalid variable name, a cd
\* that fails) or a stage whose child fails.
ErrorLine ==
    \/ line = BadAssign
    \/ line = Join(<<CdMissing, EchoHi>>)
    \/ line = Join(<<Nope, EchoHi>>)
    \/ line = CdHome /\ <<"H", "O", "M", "E">> \notin DOMAIN env

\* C24: once a line with a user error or a failing child has been read,
\* the shell comes back to getline for the line after it (unless fork or
\* pipe fails meanwhile); at getline the next line is read or end-of-file
\* is met; and when run has returned, it has returned 0.
C24_LoopContinuesAfterError ==
    /\ \A n \in 1..MaxLoopLines :
           (pc = "parse" /\ nread = n /\ ErrorLine)
               ~> ((pc = "getline" /\ nread = n) \/ FatalInExecute)
    /\ \A n \in 0..MaxLoopLines :
           (pc = "getline" /\ nread = n)
               ~> ((pc = "parse" /\ nread = n + 1) \/ pc = "returned")
    /\ [](pc = "returned" => exitStatus = Some(0))

\* C24 witness: three lines were read, an assignment to an invalid name
\* among the first two, and after it the line with the failing cd, whose
\* other stage ran; run returned 0 at end-of-file.
C24_Witness ==
    /\ pc = "returned"
    /\ nread = 3
    /\ history = <<BadAssign>>
    /\ line = Join(<<CdMissing, EchoHi>>)
    /\ stderr # <<>>
    /\ terminal = <<"h", "i", "\n">>
    /\ cwd = InitCwd
    /\ exitStatus = Some(0)

\* C31: a line that is no assignment and has been parsed has one stage per
\* segment typed, and each stage has the redirections and the number of
\* arguments of its words as typed; an argument typed $NAME is the value of
\* NAME character for character, whatever the value holds (a '$', blanks,
\* '|', '<', '>'), and any other argument is as typed.
C31_SubstitutionIsOnePass ==
    (pc # "parse" /\ commands # NULL) =>
        /\ Len(commands) = Len(Tokens(line, {"|"}))
        /\ \A k \in 1..Len(commands) :
               LET typed == WordsOf(k)
                   argAt == {j \in 1..Len(typed) : Roles(typed)[j] = "arg"}
               IN  /\ commands[k].argCount = Cardinality(argAt)
                   /\ Len(commands[k].args) = Cardinality(argAt)
                   /\ \A i \in 1..Len(commands[k].args) :
                          \E j \in argAt :
                              /\ Cardinality({m \in argAt : m <= j}) = i
                              /\ commands[k].args[i] =
                                     IF typed[j][1] # "$" THEN typed[j]
                                     ELSE IF Tail(typed[j]) \in DOMAIN envBefore
                                     THEN envBefore[Tail(typed[j])]
                                     ELSE <<>>
                   /\ (commands[k].input # NULL) =
                          (\E j \in 1..(Len(typed) - 1) :
                              Roles(typed)[j] = "op" /\ typed[j] = <<"<">>)
                   /\ (commands[k].output # NULL) =
                          (\E j \in 1..(Len(typed) - 1) :
                              Roles(typed)[j] = "op" /\ typed[j] # <<"<">>)

\* C31 witness: $a is typed while a holds $_ and _ holds 1; the stage's
\* only argument is the text $_.
C31_Witness ==
    /\ pc = "stage"
    /\ line = <<"$", "a">>
    /\ envBefore = (<<"a">> :> <<"$", "_">>) @@ (<<"_">> :> <<"1">>)
    /\ Len(commands) = 1
    /\ commands[1].args = << <<"$", "_">> >>

\* C32: while a line is parsed and after, every stage holds at most
\* MAX_NUM_ARGS - 1 arguments, so that the arguments and the terminating
\* null fit the array, and the shell has not been killed by a store
\* outside it.
C32_ArgumentsFitArray ==
    /\ pc # "crashed"
    /\ commands # NULL =>
           \A k \in 1..Len(commands) : commands[k].argCount <= MAX_NUM_ARGS - 1

\* The last stage before stage k that is not a cd stage, 0 when every
\* stage before k is a cd stage.
ExternalBefore(k) ==
    IF \E j \in ExternalStages : j < k
    THEN CHOOSE j \in ExternalStages :
             j < k /\ \A m \in ExternalStages : m < k => m <= j
    ELSE 0

\* C33: the step of a cd stage changes no descriptor of the shell, no
\* pipe, neither prevPipe nor fd, no file and no child; a child forked for
\* a stage that follows a cd stage, that names no input file and has an
\* external stage before it, has as standard input, once it has wired its
\* input, the read end of the pipe created for that external stage; and
\* when execute has returned the shell holds no pipe end, the line ending
\* with a cd stage or not.
C33_CdLeavesPipeStateAlone ==
    /\ [][(/\ pc = "stage"
           /\ curr <= Len(commands)
           /\ IsCd(commands[curr])
           /\ curr' = curr + 1)
          => /\ shellFds' = shellFds
             /\ pipes' = pipes
             /\ prevPipe' = prevPipe
             /\ fd' = fd
             /\ files' = files
             /\ procs' = procs
             /\ pc' = pc]_vars
    /\ [](\A k \in 1..Len(procs) :
            LET p == procs[k]
            IN  (/\ pc \in {"forked", "wait"}
                 /\ p.stage = curr
                 /\ p.stage > 1
                 /\ IsCd(StagesOfLine[p.stage - 1])
                 /\ ExternalBefore(p.stage) # 0
                 /\ p.cmd.input = NULL
                 /\ p.pc = "output")
                => /\ p.fds[STDIN_FILENO].kind = "pipe"
                   /\ p.fds[STDIN_FILENO].end = "r"
                   /\ pipes[p.fds[STDIN_FILENO].pipe].stage
                          = ExternalBefore(p.stage))
    /\ [](pc = "getline" => NoPipeIn(shellFds))

\* C33 witness: on 'echo hi | cd /d > o | cat' the cd stage has changed the
\* directory, no file o exists, and the child of cat has the read end of
\* the pipe of stage 1 as standard input.
C33_Witness ==
    /\ line = Join(<<EchoHi, CdToO, Cat>>)
    /\ pc = "wait"
    /\ curr = 3
    /\ cwd = <<"/", "d">>
    /\ files = InitFiles
    /\ <<"o">> \notin DOMAIN files
    /\ procs[Len(procs)].stage = 3
    /\ procs[Len(procs)].pc = "output"
    /\ procs[Len(procs)].fds[STDIN_FILENO].kind = "pipe"
    /\ pipes[procs[Len(procs)].fds[STDIN_FILENO].pipe].stage = 1

\* Child k exists, is alive and its standard input is the read end of a
\* pipe.
ReadsFromPipe(k) ==
    /\ k <= Len(procs)
    /\ procs[k].pc # "exited"
    /\ procs[k].fds[STDIN_FILENO].kind = "pipe"
    /\ procs[k].fds[STDIN_FILENO].end = "r"

\* C34: a child forked with a read end in prevPipe, and a live child whose
\* standard input is the read end of a pipe, has no process holding the
\* write end of that pipe, the shell included, and is not blocked in read;
\* and every such child eventually exits.
C34_PipeReaderSeesEndOfFile ==
    /\ [](\A k \in 1..Len(procs) :
            /\ (procs[k].pc = "input" /\ procs[k].prevPipe # -1)
               => /\ procs[k].fds[procs[k].prevPipe].kind = "pipe"
                  /\ procs[k].fds[procs[k].prevPipe].end = "r"
                  /\ ~HasHolder(PipeEnd(procs[k].fds[procs[k].prevPipe].pipe, "w"))
            /\ ReadsFromPipe(k)
               => /\ ~HasHolder(PipeEnd(procs[k].fds[STDIN_FILENO].pipe, "w"))
                  /\ ~ReadBlocked(procs[k]))
    /\ \A k \in 1..MaxStages :
           ReadsFromPipe(k) ~> (k <= Len(procs) /\ procs[k].pc = "exited")

\* C34 witness: on 'echo hi > f | cat' the file holds echo's output, and
\* cat, started with the read end of the pipe as standard input, has met
\* end-of-file and exited with status 0.
C34_Witness ==
    /\ line = Join(<<EchoToF, Cat>>)
    /\ pc = "getline"
    /\ Len(procs) = 2
    /\ procs[2].stdinAtExec.kind = "pipe"
    /\ procs[2].pc = "exited"
    /\ procs[2].status = 0
    /\ files[<<"f">>] = HiNewline

\* Child k takes a step from the given place of its code.
ChildLeaves(k, place) ==
    /\ k <= Len(procs)
    /\ k <= Len(procs')
    /\ procs[k].pc = place
    /\ procs'[k].pc # place

\* What is the same in C35 as stated and as amended: a child whose input
\* file cannot be opened exits from the input wiring and no file changes
\* in that step; files change only in the output wiring of a child, which
\* comes after its input wiring succeeded, and in the steps of a started
\* program; the output wiring goes on to execvp or exits; and a failing
\* execvp changes no file.
InputBeforeOutputBeforeExec ==
    /\ \A k \in 1..Len(procs) :
           /\ (/\ ChildLeaves(k, "input")
               /\ procs[k].cmd.input # NULL
               /\ procs[k].cmd.input[1] \notin DOMAIN files)
              => /\ procs'[k].pc = "exited"
                 /\ files' = files
           /\ ChildLeaves(k, "input") => procs'[k].pc \in {"output", "exited"}
           /\ ChildLeaves(k, "output") => procs'[k].pc \in {"exec", "exited"}
           /\ ChildLeaves(k, "exec") => files' = files
    /\ files' # files =>
           \E k \in 1..Len(procs) : procs[k].pc \in {"output", "run"}

\* C35 as stated: moreover the output wiring of a child that names an
\* output file leaves that file existing, and new or empty.
C35_OutputCreatedOrTruncated ==
    [][/\ InputBeforeOutputBeforeExec
       /\ \A k \in 1..Len(procs) :
              (ChildLeaves(k, "output") /\ procs[k].cmd.output # NULL)
              => LET o == procs[k].cmd.output[1]
                 IN  /\ o \in DOMAIN files'
                     /\ o \notin DOMAIN files \/ files'[o] = <<>>]_vars

\* C35 amended: moreover the output wiring of a child that names an output
\* file that can be opened goes on to execvp and leaves that file existing:
\* empty when it did not exist or was opened with '>', as it was when it
\* existed and was opened with '>>'; when the file cannot be opened the
\* child exits and no file changes.
C35_OutputOpenedBeforeExec ==
    [][/\ InputBeforeOutputBeforeExec
       /\ \A k \in 1..Len(procs) :
              (ChildLeaves(k, "output") /\ procs[k].cmd.output # NULL)
              => LET o == procs[k].cmd.output[1]
                 IN  IF o \in Unwritable
                     THEN procs'[k].pc = "exited" /\ files' = files
                     ELSE /\ procs'[k].pc = "exec"
                          /\ o \in DOMAIN files'
                          /\ files'[o] =
                                 IF o \in DOMAIN files /\ procs[k].cmd.append = 1
                                 THEN files[o] ELSE <<>>
                          /\ \A n \in DOMAIN files \ {o} :
                                 n \in DOMAIN files' /\ files'[n] = files[n]]_vars

\* C35 witness: on 'cat < n > f | nope > o' both children have exited with
\* a failure; f, named after an input file that does not exist, is as it
\* was, and o, named by a stage whose program cannot be executed, exists
\* and is empty.
C35_Witness ==
    /\ line = Join(<<CatFromNToF, NopeToO>>)
    /\ pc = "getline"
    /\ Len(procs) = 2
    /\ procs[1].status = 1
    /\ procs[2].status = 1
    /\ procs[2].stdoutAtExec.kind = "file"
    /\ files[<<"f">>] = InitFiles[<<"f">>]
    /\ <<"o">> \in DOMAIN files
    /\ files[<<"o">>] = <<>>

====
